---------------------------- MODULE Spec2Model ----------------------------
(***************************************************************************)
(* A model of the snippet package (github.com/nickwells/snippet.mod):      *)
(* the directive parser (parseSnippet), the snippet Cache (Add/Get/Check)  *)
(* and the directory lister (ListCfg.List).                                *)
(*                                                                         *)
(* Strings are sequences of tokens.  A token stands for a run of           *)
(* characters that the code never splits: a white-space character, the     *)
(* comment prefix, the marker word, a directive keyword, a colon, a path   *)
(* separator or a word of text.  A file's content is the sequence of       *)
(* lines that bufio.Scanner hands to the parser.                           *)
(***************************************************************************)
EXTENDS Naturals, Integers, Sequences, FiniteSets, TLC

VARIABLES
    content,      \* parser: the lines being parsed
    lineNo,       \* parser: number of lines already scanned
    s,            \* parser: the record under construction
    presult,      \* parser: what parseSnippet returned: [s, err]
    ppc,          \* parser: "idle", "scan", "done"
    fs,           \* the filesystem: path -> node
    cache,        \* Cache: snippet name -> S
    lastOp,       \* Cache: the last call made and what it returned
    failed,       \* Cache: names for which an Add has failed so far (history)
    lc,           \* Lister: the ListCfg
    errs,         \* Lister: the ErrMap the caller handed to NewListCfg
    out,          \* Lister: what has been written to the standard writer
    todo,         \* Lister: the calls of List still to be made, next first
    lpc,          \* Lister: "idle", "ready", "running" or "done"
    visits,       \* Lister: the files handed to recordSnippetContentHash (history)
    prior,        \* Lister: errs and out when an earlier List returned (history)
    given,        \* a function of the package called by itself: its arguments
    ret           \* and what it returned: [done, ...]

listVars == <<lc, errs, out, todo, lpc, visits, prior>>

pureVars == <<given, ret>>

vars == <<content, lineNo, s, presult, ppc, fs, cache, lastOp, failed, listVars, pureVars>>

(***************************************************************************)
(* Bounds of the model.                                                    *)
(***************************************************************************)
MaxLines == 3

(***************************************************************************)
(* Tokens and strings.                                                     *)
(***************************************************************************)
Space == "_"

IsSpace(t) == t = Space

\* The part names (and the directive keywords made from them).
NamePart == "name"
PathPart == "path"
TextPart == "text"
DocsPart == "note"
ImportPart == "imports"
ExpectPart == "expects"
FollowPart == "follows"
TagPart == "tag"

CommentStr == "snippet:"

snippetParts == <<DocsPart, ImportPart, ExpectPart, FollowPart, TagPart>>

altPartNames_noComesBefore ==
    [p \in {DocsPart, ImportPart, ExpectPart, FollowPart, TagPart} |->
        CASE p = DocsPart -> <<"notes", "doc", "docs">>
          [] p = ImportPart -> <<"import">>
          [] p = ExpectPart -> <<"expect">>
          [] p = FollowPart -> <<"follow", "comesafter">>
          [] p = TagPart -> <<"tags">>]

altPartNames ==
    [p \in {DocsPart, ImportPart, ExpectPart, FollowPart, TagPart} |->
        CASE p = DocsPart -> <<"notes", "doc", "docs">>
          [] p = ImportPart -> <<"import">>
          [] p = ExpectPart -> <<"expect", "comesbefore">>
          [] p = FollowPart -> <<"follow", "comesafter">>
          [] p = TagPart -> <<"tags">>]

Range(f) == {f[i] : i \in DOMAIN f}

\* The words a part's regular expression accepts as its keyword:
\* partName + altNames(partName).
altNames(name) == IF name \in DOMAIN altPartNames THEN Range(altPartNames[name]) ELSE {}

PartWords(name) == {name} \cup altNames(name)

\* The token that stands for a word of the regular expressions written in
\* another letter case.
UpperCase(w) ==
    CASE w = "snippet:" -> "SNIPPET:"
      [] w = "note" -> "NOTE"
      [] w = "notes" -> "NOTES"
      [] w = "doc" -> "DOC"
      [] w = "docs" -> "DOCS"
      [] w = "imports" -> "IMPORTS"
      [] w = "import" -> "IMPORT"
      [] w = "expects" -> "EXPECTS"
      [] w = "expect" -> "EXPECT"
      [] w = "comesbefore" -> "COMESBEFORE"
      [] w = "follows" -> "FOLLOWS"
      [] w = "follow" -> "FOLLOW"
      [] w = "comesafter" -> "COMESAFTER"
      [] w = "tag" -> "TAG"
      [] w = "tags" -> "TAGS"
      [] OTHER -> w

AllLowerWords ==
    {"snippet:", "note", "notes", "doc", "docs", "imports", "import",
     "expects", "expect", "comesbefore", "follows", "follow", "comesafter",
     "tag", "tags"}

\* The (?i) flag: a token is compared after folding its letter case.
FoldCase(t) ==
    IF \E w \in AllLowerWords : UpperCase(w) = t
    THEN CHOOSE w \in AllLowerWords : UpperCase(w) = t
    ELSE t

\* Byte order of the tokens, as sort.Strings compares them.
TokOrder ==
    <<"_", "/", "//", ":", "/A", "/B", "/C",
      "COMESAFTER", "COMESBEFORE", "DOC", "DOCS", "EXPECT", "EXPECTS",
      "FOLLOW", "FOLLOWS", "IMPORT", "IMPORTS", "NOTE", "NOTES",
      "SNIPPET:", "TAG", "TAGS",
      "a", "b", "comesafter", "comesbefore", "doc", "docs", "expect",
      "expects", "follow", "follows", "hw", "import", "imports", "note",
      "notes", "p", "q", "snippet:", "sub", "tag", "tags", "x", "zz">>

TokRank(t) == CHOOSE i \in DOMAIN TokOrder : TokOrder[i] = t

RECURSIVE StrLess(_, _)
StrLess(a, b) ==
    IF Len(b) = 0 THEN FALSE
    ELSE IF Len(a) = 0 THEN TRUE
    ELSE IF a[1] = b[1] THEN StrLess(Tail(a), Tail(b))
    ELSE TokRank(a[1]) < TokRank(b[1])

RECURSIVE InsertSorted(_, _)
InsertSorted(x, sorted) ==
    IF sorted = <<>> THEN <<x>>
    ELSE IF StrLess(Head(sorted), x) THEN <<Head(sorted)>> \o InsertSorted(x, Tail(sorted))
    ELSE <<x>> \o sorted

RECURSIVE SortStrings(_)
SortStrings(slc) ==
    IF slc = <<>> THEN <<>> ELSE InsertSorted(Head(slc), SortStrings(Tail(slc)))

RECURSIVE TrimLeft(_)
TrimLeft(str) ==
    IF str # <<>> /\ IsSpace(Head(str)) THEN TrimLeft(Tail(str)) ELSE str

RECURSIVE TrimRight(_)
TrimRight(str) ==
    IF str # <<>> /\ IsSpace(str[Len(str)])
    THEN TrimRight(SubSeq(str, 1, Len(str) - 1))
    ELSE str

TrimSpace(str) == TrimRight(TrimLeft(str))

\* The index of the first token at or after i that is not white space
\* (Len(str) + 1 when there is none): what \s* consumes.
RECURSIVE SkipSpace(_, _)
SkipSpace(str, i) ==
    IF i <= Len(str) /\ IsSpace(str[i]) THEN SkipSpace(str, i + 1) ELSE i

(***************************************************************************)
(* The regular expressions.  Each is anchored at the start of the line;    *)
(* a match is given by the index of its last token, 0 meaning no match.    *)
(***************************************************************************)
\* commentRE: ^(?i)\s*//\s*snippet:
commentRE(l) ==
    LET i == SkipSpace(l, 1) IN
    IF i <= Len(l) /\ l[i] = "//"
    THEN LET j == SkipSpace(l, i + 1) IN
         IF j <= Len(l) /\ FoldCase(l[j]) = CommentStr THEN j ELSE 0
    ELSE 0

\* snippetPartREs[part]: commentREStr \s* (?:part|alt...): \s*
snippetPartREs(part, l) ==
    LET c == commentRE(l) IN
    IF c = 0 THEN 0
    ELSE LET k == SkipSpace(l, c + 1) IN
         IF /\ k + 1 <= Len(l)
            /\ FoldCase(l[k]) \in PartWords(part)
            /\ l[k + 1] = ":"
         THEN SkipSpace(l, k + 2) - 1
         ELSE 0

(***************************************************************************)
(* The snippet record S and the parser.                                    *)
(***************************************************************************)
EmptyMap == [x \in {} |-> <<>>]

NoErr == [kind |-> "nil", args |-> <<>>]

Err(kind, args) == [kind |-> kind, args |-> args]

NewS(fName, sName) ==
    [name |-> sName, path |-> fName, text |-> <<>>, docs |-> <<>>,
     expects |-> <<>>, imports |-> <<>>, follows |-> <<>>, tags |-> EmptyMap]

\* addMatchToSlices adding the text to the last of the slices only.
addMatchToSlices_lastOnly(str, part, slcs) ==
    LET loc == snippetPartREs(part, str) IN
    IF loc = 0 THEN [ok |-> FALSE, slcs |-> slcs]
    ELSE LET text == TrimSpace(SubSeq(str, loc + 1, Len(str))) IN
         [ok |-> TRUE,
          slcs |-> IF Len(text) > 0
                   THEN [i \in DOMAIN slcs |->
                            IF i = Len(slcs) THEN Append(slcs[i], text) ELSE slcs[i]]
                   ELSE slcs]

\* addMatchToSlices: slcs is the tuple of slices handed in; the result says
\* whether the line matched and gives the slices afterwards.
addMatchToSlices(str, part, slcs) ==
    LET loc == snippetPartREs(part, str) IN
    IF loc = 0 THEN [ok |-> FALSE, slcs |-> slcs]
    ELSE LET text == TrimSpace(SubSeq(str, loc + 1, Len(str))) IN
         [ok |-> TRUE,
          slcs |-> IF Len(text) > 0
                   THEN [i \in DOMAIN slcs |-> Append(slcs[i], text)]
                   ELSE slcs]

\* addWholeMatchToSlice trimming what it adds, as addMatchToSlices does.
addWholeMatchToSlice_trims(str, part, slc) ==
    LET loc == snippetPartREs(part, str) IN
    IF loc = 0 THEN [ok |-> FALSE, slc |-> slc]
    ELSE [ok |-> TRUE, slc |-> Append(slc, TrimSpace(SubSeq(str, loc + 1, Len(str))))]

addWholeMatchToSlice(str, part, slc) ==
    LET loc == snippetPartREs(part, str) IN
    IF loc # 0
    THEN [ok |-> TRUE, slc |-> Append(slc, SubSeq(str, loc + 1, Len(str)))]
    ELSE [ok |-> FALSE, slc |-> slc]

\* strings.Cut(text, ":")
CutColon(text) ==
    IF \E i \in DOMAIN text : text[i] = ":"
    THEN LET i == CHOOSE i \in DOMAIN text :
                      text[i] = ":" /\ \A j \in 1..(i - 1) : text[j] # ":"
         IN [before |-> SubSeq(text, 1, i - 1),
             after |-> SubSeq(text, i + 1, Len(text)),
             found |-> TRUE]
    ELSE [before |-> text, after |-> <<>>, found |-> FALSE]

addTag(rec, line) ==
    LET loc == snippetPartREs(TagPart, line) IN
    IF loc = 0 THEN [ok |-> FALSE, s |-> rec]
    ELSE LET text == TrimSpace(SubSeq(line, loc + 1, Len(line)))
             cut == CutColon(text)
             value == IF cut.found THEN TrimSpace(cut.after) ELSE cut.after
             tag == TrimSpace(cut.before)
             old == IF tag \in DOMAIN rec.tags THEN rec.tags[tag] ELSE <<>>
         IN [ok |-> TRUE,
             s |-> [rec EXCEPT !.tags =
                       [t \in DOMAIN rec.tags \cup {tag} |->
                           IF t = tag THEN Append(old, value) ELSE rec.tags[t]]]]

\* ScanLine with the final else dropped: a marker line that no part matches
\* falls through to the text.
ScanLine_unmatchedAsText(rec, l) ==
    LET imp == addMatchToSlices(l, ImportPart, <<rec.imports>>)
        exp == addMatchToSlices(l, ExpectPart, <<rec.expects>>)
        fol == addMatchToSlices(l, FollowPart, <<rec.expects, rec.follows>>)
        doc == addWholeMatchToSlice(l, DocsPart, rec.docs)
        tg == addTag(rec, l)
    IN IF imp.ok THEN [rec EXCEPT !.imports = imp.slcs[1]]
       ELSE IF exp.ok THEN [rec EXCEPT !.expects = exp.slcs[1]]
       ELSE IF fol.ok THEN [rec EXCEPT !.expects = fol.slcs[1], !.follows = fol.slcs[2]]
       ELSE IF doc.ok THEN [rec EXCEPT !.docs = doc.slc]
       ELSE IF tg.ok THEN tg.s
       ELSE [rec EXCEPT !.text = Append(@, l)]

\* One turn of parseSnippet's scanning loop: the effect of line l on rec.
ScanLine(rec, l) ==
    IF commentRE(l) # 0
    THEN LET imp == addMatchToSlices(l, ImportPart, <<rec.imports>>) IN
         IF imp.ok THEN [rec EXCEPT !.imports = imp.slcs[1]]
         ELSE LET exp == addMatchToSlices(l, ExpectPart, <<rec.expects>>) IN
         IF exp.ok THEN [rec EXCEPT !.expects = exp.slcs[1]]
         ELSE LET fol == addMatchToSlices(l, FollowPart, <<rec.expects, rec.follows>>) IN
         IF fol.ok THEN [rec EXCEPT !.expects = fol.slcs[1], !.follows = fol.slcs[2]]
         ELSE LET doc == addWholeMatchToSlice(l, DocsPart, rec.docs) IN
         IF doc.ok THEN [rec EXCEPT !.docs = doc.slc]
         ELSE addTag(rec, l).s
    ELSE [rec EXCEPT !.text = Append(@, l)]

\* tidySlice: sort, then keep each entry that is neither blank nor equal to
\* the last entry kept.
RECURSIVE TidyLoop(_, _, _)
TidyLoop(sorted, kept, last) ==
    IF sorted = <<>> THEN kept
    ELSE LET str == Head(sorted) IN
         IF str # <<>> /\ str # last
         THEN TidyLoop(Tail(sorted), Append(kept, str), str)
         ELSE TidyLoop(Tail(sorted), kept, last)

\* tidySlice without the sort.
tidySlice_unsorted(slc) == TidyLoop(slc, <<>>, <<>>)

tidySlice(slc) == TidyLoop(SortStrings(slc), <<>>, <<>>)

tidy(rec) ==
    [rec EXCEPT !.imports = tidySlice(rec.imports),
                !.expects = tidySlice(rec.expects),
                !.follows = tidySlice(rec.follows)]

\* The end of parseSnippet: tidy, then the check for an empty snippet.
\* A result is [s, err]: s is <<>> for a nil pointer and <<rec>> otherwise.
ParseEnd_orInsteadOfAnd(rec, fName, sName) ==
    LET t == tidy(rec) IN
    IF Len(t.text) = 0 \/ Len(t.imports) = 0
    THEN [s |-> <<>>, err |-> Err("has no text and no imports", <<sName, fName>>)]
    ELSE [s |-> <<t>>, err |-> NoErr]

ParseEnd(rec, fName, sName) ==
    LET t == tidy(rec) IN
    IF Len(t.text) = 0 /\ Len(t.imports) = 0
    THEN [s |-> <<>>, err |-> Err("has no text and no imports", <<sName, fName>>)]
    ELSE [s |-> <<t>>, err |-> NoErr]

RECURSIVE ScanAll(_, _)
ScanAll(rec, lines) ==
    IF lines = <<>> THEN rec ELSE ScanAll(ScanLine(rec, Head(lines)), Tail(lines))

parseSnippet(lines, fName, sName) ==
    ParseEnd(ScanAll(NewS(fName, sName), lines), fName, sName)


(***************************************************************************)
(* The filesystem.  A path is a string; a node is what sits at it.         *)
(***************************************************************************)
Dir(kw, payload) == <<"//", "_", "snippet:", "_", kw, ":", "_">> \o payload

\* The file contents the filesystem draws on, by name.
FileContent(id) ==
    CASE id = "G" -> << <<"a">> >>
      [] id = "E1" -> << Dir("expects", <<"hw">>), <<"a">> >>
      [] id = "E2" -> << Dir("follows", <<"x">>), Dir("expects", <<"hw">>),
                         Dir("imports", <<"p">>) >>
      [] id = "E" -> << Dir("expects", <<"zz">>), Dir("follows", <<"x">>),
                        Dir("expects", <<"q">>), <<"a">> >>
      [] id = "N" -> << Dir("note", <<"a">>) >>
      [] OTHER -> <<>>

NoNode == [kind |-> "none", ok |-> FALSE, data |-> ""]
FileNode(id) == [kind |-> "file", ok |-> TRUE, data |-> id]
UnreadableFile(id) == [kind |-> "file", ok |-> FALSE, data |-> id]
SymlinkTo(id) == [kind |-> "symlink", ok |-> TRUE, data |-> id]
DirNode == [kind |-> "dir", ok |-> TRUE, data |-> ""]
UnreadableDir == [kind |-> "dir", ok |-> FALSE, data |-> ""]
OtherNode == [kind |-> "other", ok |-> TRUE, data |-> ""]

Node(fsys, path) == IF path \in DOMAIN fsys THEN fsys[path] ELSE NoNode

\* filepath.IsAbs
IsAbs(path) == Len(path) > 0 /\ path[1] \in {"/", "/A", "/B", "/C"}

\* filepath.Join of a directory and a name
Join(dir, name) == dir \o <<"/">> \o name

\* os.ReadFile
ReadFile(fsys, path) ==
    LET n == Node(fsys, path) IN
    CASE n.kind = "none" -> [content |-> <<>>, err |-> Err("ENOENT", <<path>>)]
      [] n.kind = "dir" -> [content |-> <<>>, err |-> Err("EISDIR", <<path>>)]
      [] n.kind \in {"file", "symlink"} /\ ~n.ok ->
            [content |-> <<>>, err |-> Err("EACCES", <<path>>)]
      [] n.kind \in {"file", "symlink"} /\ n.ok ->
            [content |-> FileContent(n.data), err |-> NoErr]
      [] OTHER -> [content |-> <<>>, err |-> Err("ENXIO", <<path>>)]

\* The names in a directory, in the order os.ReadDir returns them.
IsEntryOf(path, dir) ==
    /\ Len(path) = Len(dir) + 2
    /\ SubSeq(path, 1, Len(dir)) = dir
    /\ path[Len(dir) + 1] = "/"

RECURSIVE SetToSeq(_)
SetToSeq(S) == IF S = {} THEN <<>> ELSE LET x == CHOOSE x \in S : TRUE IN <<x>> \o SetToSeq(S \ {x})

Entries(fsys, dir) ==
    SortStrings(SetToSeq({<<path[Len(path)]>> :
        path \in {q \in DOMAIN fsys : IsEntryOf(q, dir) /\ fsys[q].kind # "none"}}))

\* os.ReadDir
ReadDir(fsys, path) ==
    LET n == Node(fsys, path) IN
    CASE n.kind = "none" -> [entries |-> <<>>, err |-> Err("ENOENT", <<path>>)]
      [] n.kind = "dir" /\ ~n.ok -> [entries |-> <<>>, err |-> Err("EACCES", <<path>>)]
      [] n.kind = "dir" /\ n.ok -> [entries |-> Entries(fsys, path), err |-> NoErr]
      [] OTHER -> [entries |-> <<>>, err |-> Err("ENOTDIR", <<path>>)]

\* os.IsNotExist
IsNotExist(err) == err.kind = "ENOENT"

\* os.Stat
Stat(fsys, path) ==
    LET n == Node(fsys, path) IN
    IF n.kind = "none"
    THEN [isDir |-> FALSE, err |-> Err("ENOENT", <<path>>)]
    ELSE [isDir |-> n.kind = "dir", err |-> NoErr]

\* The loop of readSnippetFile going on after a file has been read, so that
\* the last directory with the file yields it.
FirstReadable_lastWins(fsys, dirs, sName) ==
    LET found == {i \in DOMAIN dirs : ReadFile(fsys, Join(dirs[i], sName)).err = NoErr} IN
    IF found = {} THEN 0 ELSE CHOOSE i \in found : \A j \in found : i >= j

\* The directory, if any, that yields the file: the index of the first
\* directory of dirs under which the name can be read, 0 if there is none.
FirstReadable(fsys, dirs, sName) ==
    LET found == {i \in DOMAIN dirs : ReadFile(fsys, Join(dirs[i], sName)).err = NoErr} IN
    IF found = {} THEN 0 ELSE CHOOSE i \in found : \A j \in found : i <= j

\* readSnippetFile handing back, for a relative name that no directory
\* yields, the error of the last read it tried.
readSnippetFile_surfacesReadError(fsys, dirs, sName) ==
    IF IsAbs(sName)
    THEN LET r == ReadFile(fsys, sName) IN
         [content |-> r.content, fName |-> sName, err |-> r.err, reads |-> 1]
    ELSE IF Len(dirs) = 0
    THEN [content |-> <<>>, fName |-> <<>>,
          err |-> Err("there are no snippet directories to search", <<>>),
          reads |-> 0]
    ELSE LET i == FirstReadable(fsys, dirs, sName) IN
         IF i # 0
         THEN [content |-> ReadFile(fsys, Join(dirs[i], sName)).content,
               fName |-> Join(dirs[i], sName), err |-> NoErr, reads |-> i]
         ELSE [content |-> <<>>, fName |-> <<>>,
               err |-> ReadFile(fsys, Join(dirs[Len(dirs)], sName)).err,
               reads |-> Len(dirs)]

\* readSnippetFile; reads counts the calls of os.ReadFile it made.
readSnippetFile(fsys, dirs, sName) ==
    IF IsAbs(sName)
    THEN LET r == ReadFile(fsys, sName) IN
         [content |-> r.content, fName |-> sName, err |-> r.err, reads |-> 1]
    ELSE IF Len(dirs) = 0
    THEN [content |-> <<>>, fName |-> <<>>,
          err |-> Err("there are no snippet directories to search", <<>>),
          reads |-> 0]
    ELSE LET i == FirstReadable(fsys, dirs, sName) IN
         IF i # 0
         THEN [content |-> ReadFile(fsys, Join(dirs[i], sName)).content,
               fName |-> Join(dirs[i], sName), err |-> NoErr, reads |-> i]
         ELSE IF Len(dirs) = 1
         THEN [content |-> <<>>, fName |-> <<>>,
               err |-> Err("is not in the snippet directory", <<sName, dirs[1]>>),
               reads |-> 1]
         ELSE [content |-> <<>>, fName |-> <<>>,
               err |-> Err("is not in any snippet directory", <<sName>> \o dirs),
               reads |-> Len(dirs)]

(***************************************************************************)
(* The Cache.  A call's outcome is [cache, s, err, reads, loaded]: the     *)
(* cache afterwards, the pointer and the error returned, the number of     *)
(* files read and whether readSnippetFile was called.                      *)
(***************************************************************************)
Store(c, sName, rec) == [n \in DOMAIN c \cup {sName} |-> IF n = sName THEN rec ELSE c[n]]

Outcome(c, ptr, err, reads, loaded) ==
    [cache |-> c, s |-> ptr, err |-> err, reads |-> reads, loaded |-> loaded]

\* AddParsed storing the snippet under the path of its file.
AddParsed_storesUnderPath(c, sName, f, p) ==
    IF p.err # NoErr
    THEN Outcome(c, <<>>, p.err, f.reads, TRUE)
    ELSE Outcome(Store(c, f.fName, p.s[1]), p.s, NoErr, f.reads, TRUE)

\* AddParsed storing an entry even if the snippet did not parse.
AddParsed_storesAnyway(c, sName, f, p) ==
    IF p.err # NoErr
    THEN Outcome(Store(c, sName, NewS(f.fName, sName)), <<>>, p.err, f.reads, TRUE)
    ELSE Outcome(Store(c, sName, p.s[1]), p.s, NoErr, f.reads, TRUE)

\* Add once the file f has been parsed into p: the snippet is stored only
\* if it parsed.
AddParsed(c, sName, f, p) ==
    IF p.err # NoErr
    THEN Outcome(c, <<>>, p.err, f.reads, TRUE)
    ELSE Outcome(Store(c, sName, p.s[1]), p.s, NoErr, f.reads, TRUE)

\* Add once the file has been looked for, with outcome f.
AddRead(c, sName, f) ==
    IF f.err # NoErr
    THEN Outcome(c, <<>>, f.err, f.reads, TRUE)
    ELSE AddParsed(c, sName, f, parseSnippet(f.content, f.fName, sName))

\* Add without the look-up in the cache: it loads and stores every time.
Add_alwaysLoads(c, fsys, snippetDirs, sName) ==
    AddRead(c, sName, readSnippetFile(fsys, snippetDirs, sName))

Add(c, fsys, snippetDirs, sName) ==
    IF sName \in DOMAIN c
    THEN Outcome(c, <<c[sName]>>, NoErr, 0, FALSE)
    ELSE AddRead(c, sName, readSnippetFile(fsys, snippetDirs, sName))

\* Get falling back on a load when the name is missing.
Get_loadsOnMiss(c, sName) ==
    IF sName \notin DOMAIN c
    THEN Add(c, fs, <<>>, sName)
    ELSE Outcome(c, <<c[sName]>>, NoErr, 0, FALSE)

Get(c, sName) ==
    IF sName \notin DOMAIN c
    THEN Outcome(c, <<>>, Err("is not in the snippet cache", <<sName>>), 0, FALSE)
    ELSE Outcome(c, <<c[sName]>>, NoErr, 0, FALSE)

\* errutil.ErrMap: category -> the errors added under it, in order.
Category(kind, arg) == [kind |-> kind, arg |-> arg]

AddError(em, cat, err) ==
    [k \in DOMAIN em \cup {cat} |->
        IF k = cat THEN Append(IF cat \in DOMAIN em THEN em[cat] ELSE <<>>, err)
        ELSE em[k]]

\* Check's inner loop: the expected names of one snippet.
RECURSIVE CheckExpects(_, _, _, _)
CheckExpects(c, em, sName, expects) ==
    IF expects = <<>> THEN em
    ELSE CheckExpects(c,
                      IF Head(expects) \notin DOMAIN c
                      THEN AddError(em, Category("Missing snippet", Head(expects)),
                                    Err("expected by", <<sName>>))
                      ELSE em,
                      sName, Tail(expects))

\* Check giving up at the first missing snippet it finds.
RECURSIVE Check_stopsAtFirst(_, _, _)
Check_stopsAtFirst(c, em, order) ==
    IF order = <<>> \/ em # EmptyMap THEN em
    ELSE LET missing == SelectSeq(c[Head(order)].expects, LAMBDA e : e \notin DOMAIN c) IN
         Check_stopsAtFirst(c,
                            IF missing = <<>> THEN em
                            ELSE CheckExpects(c, em, Head(order), <<Head(missing)>>),
                            Tail(order))

\* Check: order is the order in which the range over the map yields the
\* names, which the language leaves open.
RECURSIVE Check(_, _, _)
Check(c, em, order) ==
    IF order = <<>> THEN em
    ELSE Check(c, CheckExpects(c, em, Head(order), c[Head(order)].expects), Tail(order))

Orders(S) == {f \in [1..Cardinality(S) -> S] : \A i, j \in DOMAIN f : f[i] = f[j] => i = j}

(***************************************************************************)
(* The Cache in use: calls of Add, Get and Check, with the files changing  *)
(* between the calls.                                                      *)
(***************************************************************************)
\* What the last call was and what it returned.
Call(op, name, r, em) ==
    [op |-> op, name |-> name, dirs |-> <<>>, s |-> r.s, err |-> r.err,
     reads |-> r.reads, loaded |-> r.loaded, em |-> em]

NoCall == Call("none", <<>>, Outcome(EmptyMap, <<>>, NoErr, 0, FALSE), EmptyMap)

RootA == <<"/A">>
RootB == <<"/B">>

CachePaths == {Join(RootA, <<"hw">>), Join(RootB, <<"hw">>)}

CacheNodes == {NoNode, UnreadableFile("E1")} \cup {FileNode(id) : id \in {"E1", "E2", "N"}}

CacheNames == {<<"hw">>, Join(RootA, <<"hw">>)}

CacheDirs == {<<>>, <<RootA>>, <<RootB>>, <<RootA, RootB>>, <<RootB, RootA>>}

\* NewListCfg: the ListCfg as constructed.
NewListCfg(dirs, constraints, hideIntro) ==
    [dirs |-> dirs, constraints |-> constraints, hideIntro |-> hideIntro,
     loc |-> EmptyMap, contentHash |-> EmptyMap, expectedBy |-> EmptyMap,
     intro |-> <<>>]

\* No function has been called by itself.
NotCalled == [done |-> FALSE]

PureIdle ==
    /\ given = <<>>
    /\ ret = NotCalled

ListIdle ==
    /\ lc = NewListCfg(<<>>, {}, FALSE)
    /\ errs = EmptyMap
    /\ out = <<>>
    /\ todo = <<>>
    /\ lpc = "idle"
    /\ visits = <<>>
    /\ prior = <<>>

ParserIdle ==
    /\ content = <<>>
    /\ lineNo = 0
    /\ s = NewS(<<>>, <<>>)
    /\ presult = [s |-> <<>>, err |-> NoErr]
    /\ ppc = "idle"

CacheInit ==
    /\ PureIdle
    /\ fs \in [CachePaths -> CacheNodes]
    /\ cache = EmptyMap
    /\ lastOp = NoCall
    /\ failed = {}
    /\ ParserIdle
    /\ ListIdle

CacheAdd(snippetDirs, sName) ==
    \E r \in {Add(cache, fs, snippetDirs, sName)} :
        /\ cache' = r.cache
        /\ lastOp' = [Call("Add", sName, r, EmptyMap) EXCEPT !.dirs = snippetDirs]
        /\ failed' = IF r.err # NoErr THEN failed \cup {sName} ELSE failed
        /\ UNCHANGED <<pureVars, listVars, content, lineNo, s, presult, ppc, fs>>

CacheGet(sName) ==
    \E r \in {Get(cache, sName)} :
        /\ cache' = r.cache
        /\ lastOp' = Call("Get", sName, r, EmptyMap)
        /\ UNCHANGED <<pureVars, listVars, content, lineNo, s, presult, ppc, fs, failed>>

CacheCheck(order) ==
    /\ lastOp' = Call("Check", <<>>, NoCall, Check(cache, EmptyMap, order))
    /\ UNCHANGED <<pureVars, listVars, content, lineNo, s, presult, ppc, fs, cache, failed>>

\* Something outside the program creates, deletes or rewrites a file.
FsWrite(path, node) ==
    /\ fs[path] # node
    /\ fs' = [fs EXCEPT ![path] = node]
    /\ lastOp' = Call("FsWrite", path, NoCall, EmptyMap)
    /\ UNCHANGED <<pureVars, listVars, content, lineNo, s, presult, ppc, cache, failed>>

CacheNext ==
    \/ \E d \in CacheDirs, n \in CacheNames : CacheAdd(d, n)
    \/ \E n \in CacheNames : CacheGet(n)
    \/ \E order \in Orders(DOMAIN cache) : CacheCheck(order)
    \/ \E p \in CachePaths, n \in CacheNodes : FsWrite(p, n)

CacheSpec == CacheInit /\ [][CacheNext]_vars

(***************************************************************************)
(* The Lister.  The operators below work on st = [lc, errs, out, visits],  *)
(* the ListCfg together with the ErrMap and the writer it was given.       *)
(***************************************************************************)
Put(m, k, v) == [x \in DOMAIN m \cup {k} |-> IF x = k THEN v ELSE m[x]]

\* ListCfg.tidy: every constraint is set to true, so none is deleted.
ListCfgTidy(cfg) == [cfg EXCEPT !.loc = EmptyMap]

Report(st, cat, err) == [st EXCEPT !.errs = AddError(st.errs, cat, err)]

\* fmt.Errorf("snippet %q: %w", sName, err)
WrapErr(sName, err) == Err("snippet: %w", <<sName, <<err.kind>>>> \o err.args)

\* md5.Sum: distinct contents have distinct sums.
md5Sum(fileContent) == fileContent

\* snippetIsEclipsed recording the first location and eclipsing nothing.
snippetIsEclipsed_never(st, sName, dir) ==
    IF sName \in DOMAIN st.lc.loc
    THEN [eclipsed |-> FALSE, st |-> st]
    ELSE [eclipsed |-> FALSE, st |-> [st EXCEPT !.lc.loc = Put(st.lc.loc, sName, dir)]]

\* snippetIsEclipsed recording every location, eclipsed or not.
snippetIsEclipsed_lastWins(st, sName, dir) ==
    [eclipsed |-> FALSE, st |-> [st EXCEPT !.lc.loc = Put(st.lc.loc, sName, dir)]]

snippetIsEclipsed(st, sName, dir) ==
    IF sName \in DOMAIN st.lc.loc /\ st.lc.loc[sName] # dir
    THEN [eclipsed |-> TRUE,
          st |-> Report(st, Category("Eclipsed snippet", <<>>),
                        Err("is eclipsed by the entry in",
                            <<sName, dir, st.lc.loc[sName]>>))]
    ELSE [eclipsed |-> FALSE, st |-> [st EXCEPT !.lc.loc = Put(st.lc.loc, sName, dir)]]

\* recordSnippetContentHash replacing the file it remembers.
recordSnippetContentHash_keepsLast(st, fileContent, fName) ==
    IF md5Sum(fileContent) \in DOMAIN st.lc.contentHash
    THEN [Report(st, Category("Duplicate snippet", <<>>),
                 Err("is a duplicate of",
                     <<fName, st.lc.contentHash[md5Sum(fileContent)]>>))
          EXCEPT !.lc.contentHash = Put(st.lc.contentHash, md5Sum(fileContent), fName)]
    ELSE [st EXCEPT !.lc.contentHash = Put(st.lc.contentHash, md5Sum(fileContent), fName)]

recordSnippetContentHash(st, fileContent, fName) ==
    IF md5Sum(fileContent) \in DOMAIN st.lc.contentHash
    THEN Report(st, Category("Duplicate snippet", <<>>),
                Err("is a duplicate of",
                    <<fName, st.lc.contentHash[md5Sum(fileContent)]>>))
    ELSE [st EXCEPT !.lc.contentHash = Put(st.lc.contentHash, md5Sum(fileContent), fName)]

RECURSIVE recordExpectedBy(_, _, _)
recordExpectedBy(st, expects, sName) ==
    IF expects = <<>> THEN st
    ELSE recordExpectedBy(
            [st EXCEPT !.lc.expectedBy =
                Put(st.lc.expectedBy, Head(expects),
                    Append(IF Head(expects) \in DOMAIN st.lc.expectedBy
                           THEN st.lc.expectedBy[Head(expects)] ELSE <<>>, sName))],
            Tail(expects), sName)

\* What is written: the intro of a directory, or a snippet (the record
\* handed to snippetToString).
IntroOut(intro) == [kind |-> "intro", text |-> intro, s |-> <<>>]
SnippetOut(rec) == [kind |-> "snippet", text |-> <<>>, s |-> <<rec>>]

printIntroOnce(st) ==
    IF st.lc.intro = <<>> THEN st
    ELSE [st EXCEPT !.out = Append(st.out, IntroOut(st.lc.intro)), !.lc.intro = <<>>]

PrintSnippet(st, rec) == [st EXCEPT !.out = Append(st.out, SnippetOut(rec))]

\* displaySnippet once the content has been parsed into p.
DisplayParsed(st, sName, p) ==
    IF p.err # NoErr
    THEN Report(st, Category("Bad snippet", <<>>), p.err)
    ELSE PrintSnippet(printIntroOnce(recordExpectedBy(st, p.s[1].expects, sName)), p.s[1])

\* displaySnippet once snippetIsEclipsed has answered e.
DisplayLocated(e, fileContent, fName, sName) ==
    IF e.eclipsed THEN e.st
    ELSE DisplayParsed(
            recordSnippetContentHash([e.st EXCEPT !.visits = Append(e.st.visits, fName)],
                                     fileContent, fName),
            sName, parseSnippet(fileContent, fName, sName))

\* displaySnippet parsing the content before it records the location: a
\* file that does not parse is reported and records nothing.
DisplayRead_parsesFirst(st, r, dir, fName, sName) ==
    IF r.err # NoErr
    THEN Report(st, Category("Bad snippet", <<>>), WrapErr(sName, r.err))
    ELSE IF parseSnippet(r.content, fName, sName).err # NoErr
    THEN Report(st, Category("Bad snippet", <<>>),
                parseSnippet(r.content, fName, sName).err)
    ELSE DisplayLocated(snippetIsEclipsed(st, sName, dir), r.content, fName, sName)

\* displaySnippet once the file has been read, with outcome r.
DisplayRead(st, r, dir, fName, sName) ==
    IF r.err # NoErr
    THEN Report(st, Category("Bad snippet", <<>>), WrapErr(sName, r.err))
    ELSE DisplayLocated(snippetIsEclipsed(st, sName, dir), r.content, fName, sName)

displaySnippet(st, fsys, dir, fName, sName) ==
    DisplayRead(st, ReadFile(fsys, fName), dir, fName, sName)

specificFileMatch(cfg, sName) ==
    IF cfg.constraints = {} THEN TRUE
    ELSE sName \in cfg.constraints

HasPrefix(str, prefix) ==
    Len(str) >= Len(prefix) /\ SubSeq(str, 1, Len(prefix)) = prefix

\* specificDirMatch without the loop over the constraints.
specificDirMatch_exactOnly(cfg, subDir) ==
    \/ cfg.constraints = {}
    \/ subDir \in cfg.constraints

specificDirMatch(cfg, subDir) ==
    \/ cfg.constraints = {}
    \/ subDir \in cfg.constraints
    \/ \E k \in cfg.constraints : HasPrefix(k, subDir \o <<"/">>)

\* The loop of checkExpectedSnippetsExist over the sorted keys.
RECURSIVE CheckKeys(_, _)
CheckKeys(st, ebKeys) ==
    IF ebKeys = <<>> THEN st
    ELSE CheckKeys(
            IF Head(ebKeys) \notin DOMAIN st.lc.loc
            THEN Report(st, Category("Missing expected snippet", <<>>),
                        Err("does not exist but is expected by",
                            <<Head(ebKeys)>> \o st.lc.expectedBy[Head(ebKeys)]))
            ELSE st,
            Tail(ebKeys))

\* checkExpectedSnippetsExist checking whatever the constraints.
checkExpectedSnippetsExist_always(st) ==
    CheckKeys(st, SortStrings(SetToSeq(DOMAIN st.lc.expectedBy)))

checkExpectedSnippetsExist(st) ==
    IF st.lc.constraints # {} THEN st
    ELSE CheckKeys(st, SortStrings(SetToSeq(DOMAIN st.lc.expectedBy)))

(***************************************************************************)
(* A run of List, one call at a time.  todo holds the calls still to be    *)
(* made: the constraints List has yet to look at, the directories it has   *)
(* yet to list, the entries display has yet to be called on, and the end   *)
(* of List.                                                                *)
(***************************************************************************)
Item(k, dir, sub, name, ck) == [k |-> k, dir |-> dir, sub |-> sub, name |-> name, ck |-> ck]

checkConstraints == TRUE
dontCheckConstraints == FALSE

ListState == [lc |-> lc, errs |-> errs, out |-> out, visits |-> visits]

Becomes(st) ==
    /\ lc' = st.lc
    /\ errs' = st.errs
    /\ out' = st.out
    /\ visits' = st.visits

DisplayItems(dir, sub, entries, ck) ==
    [i \in DOMAIN entries |-> Item("display", dir, sub, entries[i], ck)]

\* List with its two loops the other way round: the roots come first.
ListBegin_rootsFirst ==
    /\ lpc = "ready"
    /\ \E order \in Orders({c \in lc.constraints : IsAbs(c)}) :
        todo' = [i \in DOMAIN lc.dirs |->
                        Item("listDir", lc.dirs[i], <<>>, <<>>, checkConstraints)]
                \o [i \in DOMAIN order |-> Item("constraint", <<>>, <<>>, order[i], FALSE)]
                \o <<Item("checkExpected", <<>>, <<>>, <<>>, FALSE)>>
    /\ lc' = ListCfgTidy(lc)
    /\ lpc' = "running"
    /\ UNCHANGED <<prior, pureVars, content, lineNo, s, presult, ppc, fs, cache, lastOp,
                   failed, errs, out, visits>>

\* List, up to its first loop: tidy, and the order in which the range over
\* the constraints will yield the absolute ones.
ListBegin ==
    /\ lpc = "ready"
    /\ \E order \in Orders({c \in lc.constraints : IsAbs(c)}) :
        todo' = [i \in DOMAIN order |-> Item("constraint", <<>>, <<>>, order[i], FALSE)]
                \o [i \in DOMAIN lc.dirs |->
                        Item("listDir", lc.dirs[i], <<>>, <<>>, checkConstraints)]
                \o <<Item("checkExpected", <<>>, <<>>, <<>>, FALSE)>>
    /\ lc' = ListCfgTidy(lc)
    /\ lpc' = "running"
    /\ UNCHANGED <<prior, pureVars, content, lineNo, s, presult, ppc, fs, cache, lastOp,
                   failed, errs, out, visits>>

\* List passing over an absolute constraint that cannot be examined.
ListConstraint_dropsStatFailure ==
    /\ lpc = "running"
    /\ Head(todo).k = "constraint"
    /\ \E sName \in {Head(todo).name}, f \in {Stat(fs, Head(todo).name)} :
        IF f.err # NoErr
        THEN /\ todo' = Tail(todo)
             /\ UNCHANGED <<lc, errs, out, visits>>
        ELSE IF f.isDir
        THEN /\ todo' = <<Item("listDir", sName, <<>>, <<>>, dontCheckConstraints)>>
                        \o Tail(todo)
             /\ UNCHANGED <<lc, errs, out, visits>>
        ELSE /\ Becomes(displaySnippet(ListState, fs, <<>>, sName, sName))
             /\ todo' = Tail(todo)
    /\ UNCHANGED <<prior, pureVars, content, lineNo, s, presult, ppc, fs, cache, lastOp,
                   failed, lpc>>

\* List: one absolute constraint.
ListConstraint ==
    /\ lpc = "running"
    /\ Head(todo).k = "constraint"
    /\ \E sName \in {Head(todo).name}, f \in {Stat(fs, Head(todo).name)} :
        IF f.err # NoErr
        THEN /\ Becomes(Report(ListState, Category("Bad specific snippet", <<>>),
                               WrapErr(sName, f.err)))
             /\ todo' = Tail(todo)
        ELSE IF f.isDir
        THEN /\ todo' = <<Item("listDir", sName, <<>>, <<>>, dontCheckConstraints)>>
                        \o Tail(todo)
             /\ UNCHANGED <<lc, errs, out, visits>>
        ELSE /\ Becomes(displaySnippet(ListState, fs, <<>>, sName, sName))
             /\ todo' = Tail(todo)
    /\ UNCHANGED <<prior, pureVars, content, lineNo, s, presult, ppc, fs, cache, lastOp,
                   failed, lpc>>

\* listDir giving up the rest of the walk when the directory cannot be read.
listDir_abortsOnFailure ==
    /\ lpc = "running"
    /\ Head(todo).k = "listDir"
    /\ \E dir \in {Head(todo).dir}, d \in {ReadDir(fs, Head(todo).dir)} :
        IF d.err # NoErr
        THEN /\ IF ~IsNotExist(d.err)
                THEN Becomes(Report(ListState, Category("Bad snippets directory", dir),
                                    d.err))
                ELSE UNCHANGED <<lc, errs, out, visits>>
             /\ todo' = <<todo[Len(todo)]>>
        ELSE /\ lc' = IF ~lc.hideIntro
                      THEN [lc EXCEPT !.intro = <<"in:", "_">> \o dir]
                      ELSE lc
             /\ todo' = DisplayItems(dir, <<>>, d.entries, Head(todo).ck) \o Tail(todo)
             /\ UNCHANGED <<errs, out, visits>>
    /\ UNCHANGED <<prior, pureVars, content, lineNo, s, presult, ppc, fs, cache, lastOp,
                   failed, lpc>>

listDir ==
    /\ lpc = "running"
    /\ Head(todo).k = "listDir"
    /\ \E dir \in {Head(todo).dir}, d \in {ReadDir(fs, Head(todo).dir)} :
        IF d.err # NoErr
        THEN /\ IF ~IsNotExist(d.err)
                THEN Becomes(Report(ListState, Category("Bad snippets directory", dir),
                                    d.err))
                ELSE UNCHANGED <<lc, errs, out, visits>>
             /\ todo' = Tail(todo)
        ELSE /\ lc' = IF ~lc.hideIntro
                      THEN [lc EXCEPT !.intro = <<"in:", "_">> \o dir]
                      ELSE lc
             /\ todo' = DisplayItems(dir, <<>>, d.entries, Head(todo).ck) \o Tail(todo)
             /\ UNCHANGED <<errs, out, visits>>
    /\ UNCHANGED <<prior, pureVars, content, lineNo, s, presult, ppc, fs, cache, lastOp,
                   failed, lpc>>

\* descend: the entries of the sub-directory come before what was left.
descend(dir, subDir, ck) ==
    \E d \in {ReadDir(fs, Join(dir, subDir))} :
        IF d.err # NoErr
        THEN /\ Becomes(Report(ListState, Category("Bad sub-directory", subDir), d.err))
             /\ todo' = Tail(todo)
        ELSE /\ todo' = DisplayItems(dir, subDir, d.entries, ck) \o Tail(todo)
             /\ UNCHANGED <<lc, errs, out, visits>>

display ==
    /\ lpc = "running"
    /\ Head(todo).k = "display"
    /\ \E dir \in {Head(todo).dir}, ck \in {Head(todo).ck},
          sName \in {IF Head(todo).sub # <<>>
                     THEN Join(Head(todo).sub, Head(todo).name)
                     ELSE Head(todo).name} :
        \E fName \in {Join(dir, sName)} :
            IF Node(fs, fName).kind \in {"file", "symlink"}
            THEN /\ IF ck = checkConstraints /\ ~specificFileMatch(lc, sName)
                    THEN UNCHANGED <<lc, errs, out, visits>>
                    ELSE Becomes(displaySnippet(ListState, fs, dir, fName, sName))
                 /\ todo' = Tail(todo)
            ELSE IF Node(fs, fName).kind = "dir"
            THEN IF ck = checkConstraints /\ ~specificDirMatch(lc, sName)
                 THEN /\ todo' = Tail(todo)
                      /\ UNCHANGED <<lc, errs, out, visits>>
                 ELSE descend(dir, sName,
                              IF ck = checkConstraints /\ sName \in lc.constraints
                              THEN dontCheckConstraints ELSE ck)
            ELSE /\ Becomes(Report(ListState, Category("Unexpected file type", <<>>),
                                   Err("unexpected type", <<fName>>)))
                 /\ todo' = Tail(todo)
    /\ UNCHANGED <<prior, pureVars, content, lineNo, s, presult, ppc, fs, cache, lastOp,
                   failed, lpc>>

\* List, after its loops.
ListEnd ==
    /\ lpc = "running"
    /\ Head(todo).k = "checkExpected"
    /\ Becomes(checkExpectedSnippetsExist(ListState))
    /\ todo' = Tail(todo)
    /\ lpc' = "done"
    /\ UNCHANGED <<prior, pureVars, content, lineNo, s, presult, ppc, fs, cache, lastOp,
                   failed>>

\* The directories and files List is run on.
RootC == <<"/C">>
Hw == <<"hw">>
X == <<"x">>
Sub == <<"sub">>

ListPaths ==
    {RootA, Join(RootA, Hw), Join(RootA, X), Join(RootA, Sub), Join(Join(RootA, Sub), Hw),
     RootB, Join(RootB, Hw), Join(RootB, X), RootC, Join(RootC, Hw)}

MakeFs(ahw, ax, asub, b, bhw, bx, chw) ==
    [path \in ListPaths |->
        CASE path = Join(RootA, Hw) -> ahw
          [] path = Join(RootA, X) -> ax
          [] path = Join(RootA, Sub) -> asub
          [] path = Join(Join(RootA, Sub), Hw) ->
                IF asub = DirNode THEN FileNode("G") ELSE NoNode
          [] path = RootB -> b
          [] path = Join(RootB, Hw) -> bhw
          [] path = Join(RootB, X) -> bx
          [] path = Join(RootC, Hw) -> chw
          [] OTHER -> DirNode]

Cfg(dirs, constraints, hideIntro) ==
    [dirs |-> dirs, constraints |-> constraints, hideIntro |-> hideIntro]

ListConstraints ==
    {{Hw}, {Sub}, {Join(Sub, Hw)}, {Join(RootB, Hw)}, {RootB, Hw},
     {Join(RootA, X), RootB}}

ListConfigs ==
    {Cfg(d, {}, FALSE) : d \in {<<RootA>>, <<RootA, RootA>>, <<RootA, RootB>>,
                                <<RootB, RootA>>, <<RootA, RootB, RootA>>,
                                <<RootA, RootB, RootC>>}}
    \cup {Cfg(<<RootA, RootB>>, {}, TRUE)}
    \cup {Cfg(<<RootA, RootB>>, c, FALSE) : c \in ListConstraints}

ListInit ==
    /\ PureIdle
    /\ ParserIdle
    /\ cache = EmptyMap
    /\ lastOp = NoCall
    /\ failed = {}
    /\ \E cfg \in ListConfigs :
        /\ lc = NewListCfg(cfg.dirs, cfg.constraints, cfg.hideIntro)
        /\ \E ahw \in {NoNode, FileNode("G"), FileNode("E"), FileNode("N"),
                       UnreadableFile("G")},
              ax \in {NoNode, FileNode("G"), FileNode("E"), FileNode("N")},
              asub \in {NoNode, DirNode, UnreadableDir, OtherNode},
              b \in {DirNode, NoNode, UnreadableDir},
              bhw \in {NoNode, FileNode("G"), FileNode("N"), SymlinkTo("G")},
              bx \in {NoNode, FileNode("E")},
              chw \in {NoNode, FileNode("G")} :
            /\ b # DirNode => bhw = NoNode /\ bx = NoNode
            /\ (\A i \in DOMAIN cfg.dirs : cfg.dirs[i] # RootB) /\ cfg.constraints = {}
                    => b = DirNode /\ bhw = NoNode /\ bx = NoNode
            /\ (\A i \in DOMAIN cfg.dirs : cfg.dirs[i] # RootC) => chw = NoNode
            /\ fs = MakeFs(ahw, ax, asub, b, bhw, bx, chw)
    /\ errs = EmptyMap
    /\ out = <<>>
    /\ todo = <<>>
    /\ lpc = "ready"
    /\ visits = <<>>
    /\ prior = <<>>

ListNext == ListBegin \/ ListConstraint \/ listDir \/ display \/ ListEnd

ListSpec == ListInit /\ [][ListNext]_vars

\* List called once more on the ListCfg after it has returned, the files
\* being as they were.
ListAgain ==
    /\ lpc = "done"
    /\ prior = <<>>
    /\ prior' = [errs |-> errs, out |-> out]
    /\ \E order \in Orders({c \in lc.constraints : IsAbs(c)}) :
        todo' = [i \in DOMAIN order |-> Item("constraint", <<>>, <<>>, order[i], FALSE)]
                \o [i \in DOMAIN lc.dirs |->
                        Item("listDir", lc.dirs[i], <<>>, <<>>, checkConstraints)]
                \o <<Item("checkExpected", <<>>, <<>>, <<>>, FALSE)>>
    /\ lc' = ListCfgTidy(lc)
    /\ lpc' = "running"
    /\ UNCHANGED <<pureVars, content, lineNo, s, presult, ppc, fs, cache, lastOp, failed,
                   errs, out, visits>>

\* The runs in which the range over the constraints has one order only.
ListTwiceInit ==
    /\ ListInit
    /\ Cardinality({c \in lc.constraints : IsAbs(c)}) <= 1

ListTwiceNext == ListNext \/ ListAgain

ListTwiceSpec == ListTwiceInit /\ [][ListTwiceNext]_vars

(***************************************************************************)
(* Properties of the Cache.                                                *)
(***************************************************************************)
\* Some file that could hold the snippet is no longer what the cache holds:
\* it is gone, unreadable, or parses differently.
FileDiffers(rec) ==
    \/ ReadFile(fs, rec.path).err # NoErr
    \/ parseSnippet(ReadFile(fs, rec.path).content, rec.path, rec.name).s # <<rec>>

\* C1: once a name is in the cache (an Add of it has succeeded), every Add
\* of that name, whatever directories it is given and whatever has become
\* of the files, returns the cached record with no error, reads no file
\* and leaves the cache as it was.
C1_AddIdempotent ==
    [][(lastOp'.op = "Add" /\ lastOp'.name \in DOMAIN cache)
        => /\ lastOp'.s = <<cache[lastOp'.name]>>
           /\ lastOp'.err = NoErr
           /\ lastOp'.reads = 0
           /\ ~lastOp'.loaded
           /\ cache' = cache]_vars

\* An Add answered from the cache although the file it was loaded from has
\* changed since.
C1_Witness ==
    /\ lastOp.op = "Add"
    /\ lastOp.err = NoErr
    /\ ~lastOp.loaded
    /\ FileDiffers(lastOp.s[1])

\* C2: an Add that returns an error returns a nil snippet and leaves the
\* cache untouched, so that the name is still not a key and Get of it
\* fails; and an Add of a name that is not in the cache, a name whose Add
\* has failed before included, looks for the file again.
C2_FailedAddLeavesCache ==
    [][(lastOp'.op = "Add")
        => /\ (lastOp'.err # NoErr
                => /\ lastOp'.s = <<>>
                   /\ cache' = cache
                   /\ lastOp'.name \notin DOMAIN cache'
                   /\ Get(cache', lastOp'.name).err # NoErr
                   /\ Get(cache', lastOp'.name).s = <<>>)
           /\ (lastOp'.name \notin DOMAIN cache => lastOp'.loaded)]_vars

\* An Add that succeeds, by loading, for a name whose Add has failed before.
C2_Witness ==
    /\ lastOp.op = "Add"
    /\ lastOp.name \in failed
    /\ lastOp.err = NoErr
    /\ lastOp.loaded

Count(seq, x) == Cardinality({i \in DOMAIN seq : seq[i] = x})

\* The (snippet, expected name) pairs of the cache whose expected name is
\* not a key.
MissingPairs(c) ==
    UNION {{<<n, e>> : e \in {x \in Range(c[n].expects) : x \notin DOMAIN c}} :
           n \in DOMAIN c}

ErrorCount(em) == Cardinality(UNION {{<<k, i>> : i \in DOMAIN em[k]} : k \in DOMAIN em})

\* C3: Check records exactly one error per cached snippet and expected
\* name that is not a key, under the category "Missing snippet" of the
\* expected name and naming the snippet that expects it; it records nothing
\* else, and so nothing at all exactly when every expected name is a key.
C3_CheckRecordsEachMissingPair ==
    lastOp.op = "Check"
    => /\ \A pr \in MissingPairs(cache) :
            /\ Category("Missing snippet", pr[2]) \in DOMAIN lastOp.em
            /\ Count(lastOp.em[Category("Missing snippet", pr[2])],
                     Err("expected by", <<pr[1]>>)) = 1
       /\ ErrorCount(lastOp.em) = Cardinality(MissingPairs(cache))
       /\ (lastOp.em = EmptyMap
            <=> \A n \in DOMAIN cache :
                    \A e \in Range(cache[n].expects) : e \in DOMAIN cache)

\* A Check that found two snippets missing the same expected name, and
\* another expected name that is there.
C3_Witness ==
    /\ lastOp.op = "Check"
    /\ \E k \in DOMAIN lastOp.em : Len(lastOp.em[k]) = 2
    /\ \E n \in DOMAIN cache : \E e \in Range(cache[n].expects) : e \in DOMAIN cache

\* C4: Get and Check read no file and leave the cache as it was; Get of a
\* name that is not a key returns a nil snippet and the error that the
\* name is not in the snippet cache.
C4_GetAndCheckOnlyRead ==
    [][(lastOp'.op \in {"Get", "Check"})
        => /\ cache' = cache
           /\ lastOp'.reads = 0
           /\ ~lastOp'.loaded
           /\ (lastOp'.op = "Get" /\ lastOp'.name \notin DOMAIN cache
                => /\ lastOp'.s = <<>>
                   /\ lastOp'.err = Err("is not in the snippet cache", <<lastOp'.name>>))
           /\ (lastOp'.op = "Get" /\ lastOp'.name \in DOMAIN cache
                => /\ lastOp'.s = <<cache[lastOp'.name]>>
                   /\ lastOp'.err = NoErr)]_vars

\* A Get that failed for a name whose file an Add would have loaded.
C4_Witness ==
    /\ lastOp.op = "Get"
    /\ lastOp.err # NoErr
    /\ Add(cache, fs, <<>>, lastOp.name).err = NoErr

\* Whether the file at the path can be read.
CanRead(path) == ReadFile(fs, path).err = NoErr

\* What loading the name from the file at the path gives: the read error,
\* the parse error, or the record.
Loaded(path, sName) ==
    IF ~CanRead(path) THEN [s |-> <<>>, err |-> ReadFile(fs, path).err]
    ELSE parseSnippet(ReadFile(fs, path).content, path, sName)

\* C12: an Add that loads takes an absolute name from exactly that path,
\* whatever the directories; it takes a relative name from dir/name for the
\* first of the directories, in order, under which that file can be read;
\* and with no such directory it fails with 'there are no snippet
\* directories to search' for no directory, 'is not in the snippet
\* directory' naming the directory for one, and 'is not in any snippet
\* directory' listing the directories for several.
C12_Resolution ==
    (lastOp.op = "Add" /\ lastOp.loaded) =>
        LET n == lastOp.name
            d == lastOp.dirs
            got == [s |-> lastOp.s, err |-> lastOp.err]
            yields == {i \in DOMAIN d : CanRead(Join(d[i], n))}
        IN IF IsAbs(n) THEN got = Loaded(n, n)
           ELSE IF yields # {}
           THEN \E i \in yields :
                    /\ \A j \in yields : i <= j
                    /\ got = Loaded(Join(d[i], n), n)
                    /\ got.err = NoErr => got.s[1].path = Join(d[i], n)
           ELSE /\ got.s = <<>>
                /\ Len(d) = 0 =>
                      got.err = Err("there are no snippet directories to search", <<>>)
                /\ Len(d) = 1 =>
                      got.err = Err("is not in the snippet directory", <<n, d[1]>>)
                /\ Len(d) > 1 =>
                      got.err = Err("is not in any snippet directory", <<n>> \o d)

\* An Add that passed over a first directory where the file cannot be read
\* and took the file from the second.
C12_Witness ==
    /\ lastOp.op = "Add"
    /\ lastOp.loaded
    /\ lastOp.err = NoErr
    /\ Len(lastOp.dirs) = 2
    /\ ~CanRead(Join(lastOp.dirs[1], lastOp.name))
    /\ lastOp.s[1].path = Join(lastOp.dirs[2], lastOp.name)

\* The paths an Add of the name reads, or would read, under the directories.
Tried(dirs, sName) ==
    IF IsAbs(sName) THEN {sName} ELSE {Join(dirs[i], sName) : i \in DOMAIN dirs}

\* The errors of the reads of those paths that fail.
ReadFailures(fsys, dirs, sName) ==
    {ReadFile(fsys, p).err : p \in Tried(dirs, sName)} \ {NoErr}

ResolutionKinds ==
    {"there are no snippet directories to search",
     "is not in the snippet directory", "is not in any snippet directory"}

\* C13 as stated: an Add that meets a permission failure, and reads no file,
\* returns a failure of one of its reads, whether the name is absolute or
\* relative, and leaves the cache alone.
C13_Original ==
    [][(/\ lastOp'.op = "Add"
        /\ lastOp'.loaded
        /\ \E e \in ReadFailures(fs', lastOp'.dirs, lastOp'.name) : e.kind = "EACCES"
        /\ \A p \in Tried(lastOp'.dirs, lastOp'.name) : ReadFile(fs', p).err # NoErr)
        => /\ lastOp'.err \in ReadFailures(fs', lastOp'.dirs, lastOp'.name)
           /\ cache' = cache]_vars

\* C13: an Add of an absolute name whose read fails returns that failure as
\* it is, with no snippet, and leaves the cache alone.  An Add of a relative
\* name never returns the failure of a read: a directory whose file cannot
\* be read is passed over, the Add fails only when no directory yields the
\* file, and then with the error that the snippet is not in the directories.
C13_ReadFailure ==
    [][(lastOp'.op = "Add" /\ lastOp'.loaded) =>
        LET n == lastOp'.name
            d == lastOp'.dirs
            failures == ReadFailures(fs', d, n)
            yields == {p \in Tried(d, n) : ReadFile(fs', p).err = NoErr}
        IN /\ (IsAbs(n) /\ failures # {}) =>
                 /\ lastOp'.err = ReadFile(fs', n).err
                 /\ lastOp'.s = <<>>
                 /\ cache' = cache
           /\ ~IsAbs(n) =>
                 /\ lastOp'.err \notin failures
                 /\ yields = {} =>
                       /\ lastOp'.err.kind \in ResolutionKinds
                       /\ lastOp'.s = <<>>
                       /\ cache' = cache
                 /\ yields # {} => lastOp'.err.kind \notin ResolutionKinds]_vars

\* An Add of a relative name whose only file cannot be read for want of
\* permission, answered with the error that the snippet is not in the
\* directory.
C13_Witness ==
    /\ lastOp.op = "Add"
    /\ lastOp.loaded
    /\ ~IsAbs(lastOp.name)
    /\ Len(lastOp.dirs) = 1
    /\ ReadFile(fs, Join(lastOp.dirs[1], lastOp.name)).err.kind = "EACCES"
    /\ lastOp.err = Err("is not in the snippet directory", <<lastOp.name, lastOp.dirs[1]>>)

(***************************************************************************)
(* Properties of a run of List.                                            *)
(***************************************************************************)
ListDone == lpc = "done"

ErrsOf(kind) ==
    IF Category(kind, <<>>) \in DOMAIN errs THEN errs[Category(kind, <<>>)] ELSE <<>>

\* The snippet names a walk of the roots can come upon.
ListNames == {Hw, X, Join(Sub, Hw)}

Snippets == {i \in DOMAIN out : out[i].kind = "snippet"}

RenderingsOf(sName) == {i \in Snippets : out[i].s[1].name = sName}

RenderingsFrom(fName) == {i \in Snippets : out[i].s[1].path = fName}

Parses(fName) ==
    parseSnippet(ReadFile(fs, fName).content, fName, <<>>).err = NoErr

\* The places in the list of roots at which the name can be read, and the
\* first root at which it can.
ReadableAt(sName) ==
    {i \in DOMAIN lc.dirs : ReadFile(fs, Join(lc.dirs[i], sName)).err = NoErr}

ReadableRoots(sName) == {lc.dirs[i] : i \in ReadableAt(sName)}

Earliest(sName) ==
    lc.dirs[CHOOSE i \in ReadableAt(sName) : \A j \in ReadableAt(sName) : i <= j]

Occurrences(root) == Cardinality({i \in DOMAIN lc.dirs : lc.dirs[i] = root})

Eclipse(sName, root, by) == Err("is eclipsed by the entry in", <<sName, root, by>>)

ContentOf(fName) == ReadFile(fs, fName).content

\* The first visit of a file with the content of the file of visit j.
FirstVisit(j) ==
    CHOOSE i \in DOMAIN visits :
        /\ ContentOf(visits[i]) = ContentOf(visits[j])
        /\ \A k \in DOMAIN visits : ContentOf(visits[k]) = ContentOf(visits[j]) => i <= k

\* The visits of a file whose content an earlier visit has met.
Repeats == {j \in DOMAIN visits : FirstVisit(j) < j}

Duplicate(fName, otherFile) == Err("is a duplicate of", <<fName, otherFile>>)

SameContent(fName) == {visits[i] : i \in {k \in DOMAIN visits : ContentOf(visits[k]) = ContentOf(fName)}}

\* C6 as stated: k >= 2 visited files of distinct paths and the same
\* content give exactly k-1 "Duplicate snippet", each naming a later file
\* as a duplicate of the first visited, and all k are rendered.
C6_Original ==
    ListDone
    => \A j \in DOMAIN visits :
        Cardinality(SameContent(visits[j])) >= 2
        => /\ Cardinality({i \in DOMAIN ErrsOf("Duplicate snippet") :
                    ErrsOf("Duplicate snippet")[i].args[2] = visits[FirstVisit(j)]})
                = Cardinality(SameContent(visits[j])) - 1
           /\ \A f \in SameContent(visits[j]) \ {visits[FirstVisit(j)]} :
                Count(ErrsOf("Duplicate snippet"),
                      Duplicate(f, visits[FirstVisit(j)])) = 1
           /\ \A f \in SameContent(visits[j]) : RenderingsFrom(f) # {}

\* C6: the "Duplicate snippet" diagnostics are, in order, one for each
\* visit of a readable, non-eclipsed file whose content an earlier visit
\* has met, naming the file visited as a duplicate of the first file
\* visited with that content (k-1 of them for k such files visited once
\* each); and a visited file is rendered, once per visit, exactly if its
\* content parses.
C6_DuplicatePerRepeat ==
    /\ Len(ErrsOf("Duplicate snippet")) = Cardinality(Repeats)
    /\ \A j \in Repeats :
        ErrsOf("Duplicate snippet")[Cardinality({i \in Repeats : i <= j})]
            = Duplicate(visits[j], visits[FirstVisit(j)])
    /\ \A j \in DOMAIN visits :
        Cardinality(RenderingsFrom(visits[j]))
            = IF Parses(visits[j]) THEN Count(visits, visits[j]) ELSE 0

\* Three files of distinct paths and the same content, each visited once:
\* two diagnostics, three renderings.
C6_Witness ==
    /\ ListDone
    /\ Len(visits) = 3
    /\ \A j \in DOMAIN visits : Cardinality(SameContent(visits[j])) = 3
    /\ Len(ErrsOf("Duplicate snippet")) = 2
    /\ Cardinality(Snippets) = 3

\* The names expected by the snippets rendered, and the snippets (by name,
\* in the order rendered) that expect a given name.
ExpectedNames == UNION {Range(out[i].s[1].expects) : i \in Snippets}

RECURSIVE ExpectorsIn(_, _)
ExpectorsIn(written, e) ==
    IF written = <<>> THEN <<>>
    ELSE (IF Head(written).kind = "snippet" /\ e \in Range(Head(written).s[1].expects)
          THEN <<Head(written).s[1].name>> ELSE <<>>)
         \o ExpectorsIn(Tail(written), e)

MissingNames == ExpectedNames \ DOMAIN lc.loc

\* C7: when List has ended with no constraints set, the "Missing expected
\* snippet" diagnostics are one for each expected name that is not in the
\* location map, each listing all the snippets that expect the name, in
\* ascending order of the expected name; none is recorded before the end
\* of the run, and none at all when a constraint is set.
C7_MissingExpected ==
    LET M == ErrsOf("Missing expected snippet") IN
    /\ (ListDone /\ lc.constraints = {}
        => /\ Len(M) = Cardinality(MissingNames)
           /\ \A i \in DOMAIN M :
                /\ M[i].kind = "does not exist but is expected by"
                /\ M[i].args[1] \in MissingNames
                /\ Tail(M[i].args) = ExpectorsIn(out, M[i].args[1])
           /\ \A i, j \in DOMAIN M : i < j => StrLess(M[i].args[1], M[j].args[1]))
    /\ (~ListDone \/ lc.constraints # {} => M = <<>>)

\* A run with no constraints that ends with two names missing, each
\* expected by two snippets, and a third expected name that is there.
C7_Witness ==
    /\ ListDone
    /\ lc.constraints = {}
    /\ Len(ErrsOf("Missing expected snippet")) = 2
    /\ \A i \in DOMAIN ErrsOf("Missing expected snippet") :
            Len(ErrsOf("Missing expected snippet")[i].args) = 3
    /\ ExpectedNames \cap DOMAIN lc.loc # {}

(***************************************************************************)
(* The parser run step by step: one line of the content at a time, then    *)
(* the end of parseSnippet.                                                *)
(***************************************************************************)
\* The lines the parser is run on.
ParseLines ==
    { <<"a">>,
      <<>>,
      Dir("imports", <<"p">>),
      Dir("imports", <<"_">>),
      Dir("expects", <<"x">>),
      Dir("follows", <<"hw">>),
      Dir("note", <<"_", "a", "_">>),
      Dir("tag", <<"a", "_", ":", "_", "b">>),
      <<"//", "snippet:", "a", ":", "b">>,
      <<"_", "//", "SNIPPET:", "IMPORT", ":", "p">>,
      <<"//", "snippet:", "note", "_", ":", "a">> }

SeqsUpTo(S, n) == UNION {[1..k -> S] : k \in 0..n}

ParseName == <<"hw">>
ParsePath == <<"/A", "/", "hw">>

NoResult == [s |-> <<>>, err |-> NoErr]

CacheIdle ==
    /\ fs = EmptyMap
    /\ cache = EmptyMap
    /\ lastOp = NoCall
    /\ failed = {}

ParseInit ==
    /\ PureIdle
    /\ content \in SeqsUpTo(ParseLines, MaxLines)
    /\ lineNo = 0
    /\ s = NewS(ParsePath, ParseName)
    /\ presult = NoResult
    /\ ppc = "scan"
    /\ CacheIdle
    /\ ListIdle

ParseLine ==
    /\ ppc = "scan"
    /\ lineNo < Len(content)
    /\ s' = ScanLine(s, content[lineNo + 1])
    /\ lineNo' = lineNo + 1
    /\ UNCHANGED <<pureVars, listVars, content, presult, ppc, fs, cache, lastOp, failed>>

ParseFinish ==
    /\ ppc = "scan"
    /\ lineNo = Len(content)
    /\ presult' = ParseEnd(s, s.path, s.name)
    /\ ppc' = "done"
    /\ UNCHANGED <<pureVars, listVars, content, lineNo, s, fs, cache, lastOp, failed>>

ParseNext == ParseLine \/ ParseFinish

ParseSpec == ParseInit /\ [][ParseNext]_vars


(***************************************************************************)
(* What the specification says of a line, stated without the parser's own  *)
(* matching: where the marker and the keyword sit, and which directive     *)
(* the keyword names.                                                      *)
(***************************************************************************)
\* The places a marker can end at: white space, the comment prefix, white
\* space, the marker word in either letter case.
MarkerEnds(l) ==
    {j \in DOMAIN l :
        /\ l[j] \in {"snippet:", "SNIPPET:"}
        /\ \E i \in 1..(j - 1) :
              /\ l[i] = "//"
              /\ \A k \in (1..(j - 1)) \ {i} : l[k] = "_"}

LineHasMarker(l) == MarkerEnds(l) # {}

MarkerPos(l) == CHOOSE j \in MarkerEnds(l) : TRUE

\* The places a keyword can sit at: after the marker and white space, and
\* followed at once by a colon.
KeywordSlots(l) ==
    IF MarkerEnds(l) = {} THEN {}
    ELSE LET j == MarkerPos(l) IN
         {k \in (j + 1)..(Len(l) - 1) :
             /\ l[k] # "_"
             /\ l[k + 1] = ":"
             /\ \A m \in (j + 1)..(k - 1) : l[m] = "_"}

KeywordPos(l) == CHOOSE k \in KeywordSlots(l) : TRUE

Synonyms(kind) ==
    CASE kind = "note" -> {"note", "notes", "doc", "docs"}
      [] kind = "imports" -> {"imports", "import"}
      [] kind = "expects" -> {"expects", "expect", "comesbefore"}
      [] kind = "follows" -> {"follows", "follow", "comesafter"}
      [] kind = "tag" -> {"tag", "tags"}

Directives == {"imports", "expects", "follows", "note", "tag"}

KeywordForms(kind) == Synonyms(kind) \cup {UpperCase(w) : w \in Synonyms(kind)}

LineKind(l) ==
    IF MarkerEnds(l) = {} THEN "text"
    ELSE LET ks == KeywordSlots(l) IN
         IF ks = {} THEN "unknown"
         ELSE LET w == l[CHOOSE k \in ks : TRUE]
                  ds == {d \in Directives : w \in KeywordForms(d)}
              IN IF ds = {} THEN "unknown" ELSE CHOOSE d \in ds : TRUE

LinePayload(l) == SubSeq(l, KeywordPos(l) + 2, Len(l))

IsTextLine(l) == LineKind(l) = "text"

\* The trimmed, non-blank payloads of the lines of the given kinds, in order.
RECURSIVE PayloadsOf(_, _)
PayloadsOf(lines, kinds) ==
    IF lines = <<>> THEN <<>>
    ELSE LET l == Head(lines)
             rest == PayloadsOf(Tail(lines), kinds)
         IN IF LineKind(l) \in kinds
            THEN LET p == TrimSpace(LinePayload(l)) IN
                 IF p # <<>> THEN <<p>> \o rest ELSE rest
            ELSE rest

CountKind(lines, kind) == Cardinality({i \in DOMAIN lines : LineKind(lines[i]) = kind})

RECURSIVE SumLens(_, _)
SumLens(f, keys) ==
    IF keys = {} THEN 0
    ELSE LET k == CHOOSE k \in keys : TRUE IN Len(f[k]) + SumLens(f, keys \ {k})

Scanned == SubSeq(content, 1, lineNo)

\* C8: parseSnippet fails, with the 'has no text and no imports' error, if
\* and only if the content has no line without the marker and no import
\* directive with a non-blank payload, whatever other directives it holds;
\* otherwise it returns a record, which has text or imports.
C8_EmptyIffFails ==
    ppc = "done" =>
        LET empty == /\ \A i \in DOMAIN content : LineKind(content[i]) # "text"
                     /\ PayloadsOf(content, {"imports"}) = <<>>
        IN /\ (presult.err # NoErr) <=> empty
           /\ presult.err # NoErr =>
                 /\ presult.s = <<>>
                 /\ presult.err.kind = "has no text and no imports"
           /\ presult.err = NoErr =>
                 /\ Len(presult.s) = 1
                 /\ ~(presult.s[1].text = <<>> /\ presult.s[1].imports = <<>>)

C8_Witness ==
    /\ ppc = "done"
    /\ presult.err # NoErr
    /\ \E i \in DOMAIN content : LineKind(content[i]) \in {"note", "tag", "expects", "follows"}

\* C9: the lines are handled in order and each has one effect: after any
\* number of lines, text holds exactly the lines without the marker, in
\* order; imports, expects and follows hold the payloads of their own
\* directives (follows feeding expects too); each note line has added one
\* entry to docs and each tag line one tag value; a marker line of no known
\* directive has changed nothing; and the text reaches the record returned.
C9_OneEffectPerLine ==
    ppc \in {"scan", "done"} =>
        /\ s.name = ParseName /\ s.path = ParsePath
        /\ s.text = SelectSeq(Scanned, IsTextLine)
        /\ s.imports = PayloadsOf(Scanned, {"imports"})
        /\ s.expects = PayloadsOf(Scanned, {"expects", "follows"})
        /\ s.follows = PayloadsOf(Scanned, {"follows"})
        /\ Len(s.docs) = CountKind(Scanned, "note")
        /\ SumLens(s.tags, DOMAIN s.tags) = CountKind(Scanned, "tag")
        /\ (ppc = "done" /\ presult.err = NoErr) =>
              presult.s[1].text = SelectSeq(content, IsTextLine)

C9_Witness ==
    /\ ppc = "done"
    /\ presult.err = NoErr
    /\ \E i, j, k \in DOMAIN content :
          /\ LineKind(content[i]) = "unknown"
          /\ LineKind(content[j]) = "text"
          /\ LineKind(content[k]) \in Directives

\* The lines got from a directive line by writing its keyword as any synonym
\* of it, in either letter case, and its marker in either letter case.
SynonymVariants(l) ==
    IF LineKind(l) \in Directives
    THEN {[l EXCEPT ![KeywordPos(l)] = w] : w \in KeywordForms(LineKind(l))}
         \cup {[l EXCEPT ![MarkerPos(l)] = m] : m \in {"snippet:", "SNIPPET:"}}
    ELSE {}

\* C10: replacing the keyword of a directive line by a synonym of it, or
\* changing the letter case of the marker or the keyword, gives the same
\* parsed result.
C10_SynonymsParseAlike ==
    ppc = "done" =>
        \A i \in DOMAIN content :
            \A v \in SynonymVariants(content[i]) :
                parseSnippet([content EXCEPT ![i] = v], ParsePath, ParseName) = presult

C10_Witness ==
    /\ ppc = "done"
    /\ presult.err = NoErr
    /\ \E i \in DOMAIN content :
          /\ LineKind(content[i]) = "expects"
          /\ TrimSpace(LinePayload(content[i])) # <<>>
          /\ content[i][KeywordPos(content[i])] # "comesbefore"

(***************************************************************************)
(* The parser run on note directives: the payload is any short string of   *)
(* white space and words, put straight after the colon of the keyword.     *)
(***************************************************************************)
MaxPayload == 3

NoteLine(kw, payload) == <<"//", "_", "snippet:", "_", kw, ":">> \o payload

NoteLines ==
    {NoteLine(kw, pl) : kw \in {"note", "DOCS"}, pl \in SeqsUpTo({"_", "a"}, MaxPayload)}
    \cup {<<"a">>}

NoteInit ==
    /\ PureIdle
    /\ content \in {<<l>> : l \in NoteLines} \cup {<<l, m>> : l, m \in NoteLines}
    /\ lineNo = 0
    /\ s = NewS(ParsePath, ParseName)
    /\ presult = NoResult
    /\ ppc = "scan"
    /\ CacheIdle
    /\ ListIdle

NoteSpec == NoteInit /\ [][ParseNext]_vars

\* What follows the colon of the keyword, for each note line, in order.
RECURSIVE NotePayloads(_)
NotePayloads(lines) ==
    IF lines = <<>> THEN <<>>
    ELSE (IF LineKind(Head(lines)) = "note" THEN <<LinePayload(Head(lines))>> ELSE <<>>)
         \o NotePayloads(Tail(lines))

\* C11 as stated: each note line appends to docs what follows the colon of
\* its keyword, untouched: leading and trailing white space kept, an empty
\* payload appended as an empty entry.
C11_Original ==
    ppc \in {"scan", "done"} => s.docs = NotePayloads(Scanned)

\* C11: each note line appends to docs one entry, what follows the colon of
\* its keyword less the white space that leads it (which the pattern of the
\* directive takes): trailing white space is kept, and a payload that is
\* empty or all white space appends an empty entry.
C11_NoteKeptButForLeadingSpace ==
    ppc \in {"scan", "done"} =>
        /\ Len(s.docs) = Len(NotePayloads(Scanned))
        /\ \A i \in DOMAIN s.docs : s.docs[i] = TrimLeft(NotePayloads(Scanned)[i])
        /\ (ppc = "done" /\ presult.err = NoErr) => presult.s[1].docs = s.docs

\* Two note lines scanned: one note kept its trailing white space and lost
\* its leading white space, the other is an empty entry.
C11_Witness ==
    /\ lineNo = 2
    /\ \E i, j \in DOMAIN s.docs :
          /\ s.docs[i] = <<"a", "_">>
          /\ NotePayloads(Scanned)[i] = <<"_", "a", "_">>
          /\ s.docs[j] = <<>>
          /\ NotePayloads(Scanned)[j] = <<>>


(***************************************************************************)
(* S.Matches, called by itself on two records.  A map is ranged over in    *)
(* no fixed order, so cmpTags and Matches give the set of the errors the   *)
(* call may return.                                                        *)
(***************************************************************************)
Min(a, b) == IF a <= b THEN a ELSE b

maxDiffsShown == 1

\* The loop of cmpSlice over a, from the index i (counted from 0).
RECURSIVE CmpLoop(_, _, _, _, _)
CmpLoop(a, b, i, diffs, diffCount) ==
    IF i >= Len(a) THEN [diffs |-> diffs, diffCount |-> diffCount]
    ELSE IF i <= Len(b) - 1 /\ a[i + 1] # b[i + 1]
    THEN CmpLoop(a, b, i + 1,
                 IF diffCount < maxDiffsShown
                 THEN Append(diffs, <<"entry differs", i, a[i + 1], b[i + 1]>>)
                 ELSE diffs,
                 diffCount + 1)
    ELSE CmpLoop(a, b, i + 1, diffs, diffCount)

\* cmpSlice telling the number of all the differences, not of the further
\* ones.
cmpSlice_countsAll(name, a, b) ==
    LET lengths == IF Len(a) # Len(b)
                   THEN <<<<"the lengths differ", Len(a), Len(b)>>>> ELSE <<>>
        loop == CmpLoop(a, b, 0, lengths, 0)
        diffs == IF loop.diffCount = maxDiffsShown + 1
                 THEN Append(loop.diffs, <<"an additional difference was found">>)
                 ELSE IF loop.diffCount > maxDiffsShown + 1
                 THEN Append(loop.diffs,
                             <<"additional differences were found", loop.diffCount>>)
                 ELSE loop.diffs
    IN IF Len(diffs) > 0 THEN Err("differs", <<name, diffs>>) ELSE NoErr

\* cmpSlice
cmpSlice(name, a, b) ==
    LET lengths == IF Len(a) # Len(b)
                   THEN <<<<"the lengths differ", Len(a), Len(b)>>>> ELSE <<>>
        loop == CmpLoop(a, b, 0, lengths, 0)
        diffs == IF loop.diffCount = maxDiffsShown + 1
                 THEN Append(loop.diffs, <<"an additional difference was found">>)
                 ELSE IF loop.diffCount > maxDiffsShown + 1
                 THEN Append(loop.diffs,
                             <<"additional differences were found",
                               loop.diffCount - maxDiffsShown>>)
                 ELSE loop.diffs
    IN IF Len(diffs) > 0 THEN Err("differs", <<name, diffs>>) ELSE NoErr

\* cmpTags
cmpTags(a, b) ==
    LET onlyA == DOMAIN a \ DOMAIN b
        onlyB == DOMAIN b \ DOMAIN a
        sorted == SortStrings(SetToSeq(onlyA \cup onlyB))
        differingTags ==
            [i \in DOMAIN sorted |->
                <<sorted[i], IF sorted[i] \in onlyA THEN "in this, not in other"
                             ELSE "in other, not in this">>]
        bad == {cmpSlice(<<"Tag:">> \o k, a[k], b[k]) : k \in DOMAIN a} \ {NoErr}
    IN IF differingTags # <<>> THEN {Err("the tag names differ", differingTags)}
       ELSE IF bad # {} THEN bad
       ELSE {NoErr}

\* S.Matches
Matches(this, other) ==
    IF this.name # other.name
    THEN {Err("the names differ", <<this.name, other.name>>)}
    ELSE IF this.path # other.path
    THEN {Err("the paths differ", <<this.path, other.path>>)}
    ELSE IF cmpSlice("docs", this.docs, other.docs) # NoErr
    THEN {cmpSlice("docs", this.docs, other.docs)}
    ELSE IF cmpSlice("expects", this.expects, other.expects) # NoErr
    THEN {cmpSlice("expects", this.expects, other.expects)}
    ELSE IF cmpSlice("imports", this.imports, other.imports) # NoErr
    THEN {cmpSlice("imports", this.imports, other.imports)}
    ELSE IF cmpSlice("follows", this.follows, other.follows) # NoErr
    THEN {cmpSlice("follows", this.follows, other.follows)}
    ELSE cmpTags(this.tags, other.tags)

\* The records compared: every field takes an empty and a non-empty value,
\* the slices differ in length, in one entry, in two and in three.
Wa == <<"a">>
Wb == <<"b">>

MatchTags ==
    {EmptyMap, Wa :> <<Wa>>, Wa :> <<Wb>>, Wb :> <<Wa>>, (Wa :> <<Wa>>) @@ (Wb :> <<Wa>>),
     (Wa :> <<Wb>>) @@ (Wb :> <<Wb>>)}

MatchOthers ==
    [name : {Wa, Wb},
     path : {Join(RootA, Wa), Join(RootB, Wa)},
     text : {<<Wa>>, <<Wb>>},
     docs : {<<>>, <<Wa>>, <<Wa, Wb>>, <<Wb, Wa>>, <<Wa, Wb, Wa>>, <<Wb, Wa, Wb>>},
     expects : {<<>>, <<Wa>>},
     imports : {<<>>, <<Wa>>},
     follows : {<<>>, <<Wa>>},
     tags : MatchTags]

MatchThese ==
    {r \in MatchOthers :
        /\ r.name = Wa /\ r.path = Join(RootA, Wa) /\ r.text = <<Wa>>
        /\ r.docs \in {<<Wa, Wb>>, <<Wa, Wb, Wa>>}
        /\ r.expects = <<Wa>> /\ r.imports = <<>> /\ r.follows = <<Wa>>
        /\ r.tags \in {Wa :> <<Wa>>, (Wa :> <<Wa>>) @@ (Wb :> <<Wa>>)}}

MatchInit ==
    /\ given \in [this : MatchThese, other : MatchOthers]
    /\ ret = NotCalled
    /\ ParserIdle
    /\ CacheIdle
    /\ ListIdle

CallMatches ==
    /\ ~ret.done
    /\ \E e \in Matches(given.this, given.other) : ret' = [done |-> TRUE, err |-> e]
    /\ UNCHANGED <<given, listVars, content, lineNo, s, presult, ppc, fs, cache,
                   lastOp, failed>>

MatchNext == CallMatches

MatchSpec == MatchInit /\ [][MatchNext]_vars

\* C14: Matches returns nil if and only if the two records are equal in
\* every field: name, path, text, docs, imports, expects, follows and tags.
C14_NilIffEqual ==
    ret.done => (ret.err = NoErr <=> given.this = given.other)

\* What Matches does: it returns nil if and only if the two records are
\* equal in every field but the text.
C14_NilIffEqualButText ==
    ret.done =>
        (ret.err = NoErr <=> [given.this EXCEPT !.text = <<>>] = [given.other EXCEPT !.text = <<>>])

\* Two records that differ in their text, and in nothing else, found to match.
C14_Witness ==
    /\ ret.done
    /\ ret.err = NoErr
    /\ given.this.text # given.other.text


(***************************************************************************)
(* formatCfg: the rendering of a record.  The string returned is the       *)
(* sequence of its lines, the empty first line included; a line is a       *)
(* sequence of tokens, "_" being a space.                                  *)
(***************************************************************************)
nameIndent == 4
dfltIndent == 8

validParts ==
    {NamePart, PathPart, TextPart, DocsPart, ExpectPart, ImportPart, FollowPart, TagPart}

FormatCfg(parts, tags, hideIntro) == [parts |-> parts, tags |-> tags, hideIntro |-> hideIntro]

\* A partsToShow; indent 0 is the value of a field not set.
PartToShow(intro, indent, values) == [intro |-> intro, indent |-> indent, values |-> values]

\* The loop of initPartsToShow copying every expected name.
expectedParts_all(rec) == rec.expects

\* The loop of initPartsToShow over s.expects: the expected names that are
\* not among the follows.
expectedParts(rec) ==
    LET kept == {i \in DOMAIN rec.expects : rec.expects[i] \notin Range(rec.follows)}
        F[n \in 0..Len(rec.expects)] ==
            IF n = 0 THEN <<>>
            ELSE IF n \in kept THEN Append(F[n - 1], rec.expects[n]) ELSE F[n - 1]
    IN F[Len(rec.expects)]

\* getTagKeys
getTagKeys(rec) == SortStrings(SetToSeq(DOMAIN rec.tags))

\* The parts given to the function for the tags in the keys, in order.
RECURSIVE TagParts(_, _, _, _)
TagParts(fc, rec, keys, all) ==
    IF keys = <<>> THEN <<>>
    ELSE (IF all \/ Head(keys) \in fc.tags
          THEN <<PartToShow(Head(keys) \o <<":">>, 0, rec.tags[Head(keys)])>>
          ELSE <<>>)
         \o TagParts(fc, rec, Tail(keys), all)

\* initPartsToShow; the record is read and never written.
initPartsToShow(fc, rec) ==
    LET partsAndTagsEmpty == fc.parts = {} /\ fc.tags = {}
        If(c, part) == IF c THEN <<part>> ELSE <<>>
    IN If(partsAndTagsEmpty \/ NamePart \in fc.parts,
          PartToShow(<<>>, nameIndent, <<rec.name>>))
       \o If(PathPart \in fc.parts, PartToShow(<<"Pathname:">>, 0, <<rec.path>>))
       \o If(partsAndTagsEmpty \/ DocsPart \in fc.parts,
             PartToShow(<<"Note:">>, 0, rec.docs))
       \o If(partsAndTagsEmpty \/ ImportPart \in fc.parts,
             PartToShow(<<"Imports:">>, 0, rec.imports))
       \o If(partsAndTagsEmpty \/ FollowPart \in fc.parts,
             PartToShow(<<"Follows:">>, 0, rec.follows))
       \o If(partsAndTagsEmpty \/ ExpectPart \in fc.parts,
             PartToShow(<<"Expects:">>, 0, expectedParts(rec)))
       \o If(TagPart \in fc.parts, PartToShow(<<"Tags:">>, 0, getTagKeys(rec)))
       \o TagParts(fc, rec, getTagKeys(rec), partsAndTagsEmpty)
       \o If(TextPart \in fc.parts, PartToShow(<<"Text:">>, 0, rec.text))

\* len of a string: the characters of its tokens.
RECURSIVE StrLen(_)
StrLen(str) == IF str = <<>> THEN 0 ELSE Len(Head(str)) + StrLen(Tail(str))

\* maxIntroLen
RECURSIVE maxIntroLen(_)
maxIntroLen(parts) ==
    IF parts = <<>> THEN 0
    ELSE LET m == maxIntroLen(Tail(parts)) IN
         IF StrLen(Head(parts).intro) > m THEN StrLen(Head(parts).intro) ELSE m

\* strings.Repeat(" ", n)
Blanks(n) == [i \in 1..n |-> "_"]

\* The lines of a part with the blanks written before the first value too.
PartLines_blanksOnly(p, maxLen) ==
    LET indent == IF p.indent = 0 THEN dfltIndent ELSE p.indent
        intro == Blanks(indent)
                 \o (IF p.intro # <<>>
                     THEN Blanks(maxLen - StrLen(p.intro)) \o p.intro \o <<"_">>
                     ELSE <<>>)
        blanks == Blanks(StrLen(intro))
    IN [i \in DOMAIN p.values |-> blanks \o p.values[i]]

\* The lines snippetToString writes for a part with intros shown: the
\* intro, right-aligned in maxLen and indented, before the first value and
\* as many blanks before the others.
PartLines(p, maxLen) ==
    LET indent == IF p.indent = 0 THEN dfltIndent ELSE p.indent
        intro == Blanks(indent)
                 \o (IF p.intro # <<>>
                     THEN Blanks(maxLen - StrLen(p.intro)) \o p.intro \o <<"_">>
                     ELSE <<>>)
        blanks == Blanks(StrLen(intro))
    IN [i \in DOMAIN p.values |-> (IF i = 1 THEN intro ELSE blanks) \o p.values[i]]

RECURSIVE Lines(_, _, _)
Lines(parts, maxLen, hideIntro) ==
    IF parts = <<>> THEN <<>>
    ELSE (IF hideIntro THEN Head(parts).values ELSE PartLines(Head(parts), maxLen))
         \o Lines(Tail(parts), maxLen, hideIntro)

\* snippetToString
snippetToString(fc, rec) ==
    <<<<>>>> \o Lines(initPartsToShow(fc, rec), maxIntroLen(initPartsToShow(fc, rec)),
                      fc.hideIntro)

\* The configurations and the records rendered.
MaxParts == 2

RenderParts == {ps \in SUBSET validParts : Cardinality(ps) <= MaxParts \/ ps = validParts}

RenderCfgs ==
    {FormatCfg(ps, ts, h) : ps \in RenderParts, ts \in {{}, {Wa}, {Wa, Wb}}, h \in BOOLEAN}

RenderTags == {EmptyMap, Wb :> <<Wa, Wb>>, (Wb :> <<Wb>>) @@ (Wa :> <<<<"_", "a">>>>)}

RenderRecords ==
    [name : {<<"hw">>},
     path : {Join(RootA, <<"hw">>)},
     text : {<<Wa>>, <<<<"_", "a">>, Wb>>},
     docs : {<<>>, <<Wa, <<"a", "_", "b">>>>},
     expects : {<<>>, <<<<"zz">>>>, <<<<"x">>, <<"zz">>, <<"x">>>>},
     imports : {<<>>, <<<<"p">>>>},
     follows : {<<>>, <<<<"x">>>>},
     tags : RenderTags]

RenderInit ==
    /\ given \in [fc : RenderCfgs, s : RenderRecords]
    /\ ret = NotCalled
    /\ ParserIdle
    /\ CacheIdle
    /\ ListIdle

\* S.String and displaySnippet: the record is rendered; what is returned
\* is kept with the parts it was made from and the record afterwards.
CallSnippetToString ==
    /\ ~ret.done
    /\ ret' = [done |-> TRUE,
               parts |-> initPartsToShow(given.fc, given.s),
               text |-> snippetToString(given.fc, given.s),
               s |-> given.s]
    /\ UNCHANGED <<given, listVars, content, lineNo, s, presult, ppc, fs, cache,
                   lastOp, failed>>

RenderNext == CallSnippetToString

RenderSpec == RenderInit /\ [][RenderNext]_vars

\* The values of the parts, in order, and their intros.
RECURSIVE ValuesOf(_)
ValuesOf(parts) ==
    IF parts = <<>> THEN <<>> ELSE Head(parts).values \o ValuesOf(Tail(parts))

IntrosOf(parts) == [i \in DOMAIN parts |-> parts[i].intro]

\* The values of the tags of the record, tag by tag in the order of the keys.
RECURSIVE TagValues(_, _)
TagValues(rec, keys) ==
    IF keys = <<>> THEN <<>> ELSE rec.tags[Head(keys)] \o TagValues(rec, Tail(keys))

\* The expected names without those that are followed.
ExpectsMinusFollows(rec) ==
    SelectSeq(rec.expects, LAMBDA e : \A i \in DOMAIN rec.follows : rec.follows[i] # e)

\* The default view of a record: what it shows and under which intros.
DefaultValues(rec) ==
    <<rec.name>> \o rec.docs \o rec.imports \o rec.follows \o ExpectsMinusFollows(rec)
    \o TagValues(rec, getTagKeys(rec))

DefaultIntros(rec) ==
    <<<<>>, <<"Note:">>, <<"Imports:">>, <<"Follows:">>, <<"Expects:">>>>
    \o [i \in DOMAIN getTagKeys(rec) |-> getTagKeys(rec)[i] \o <<":">>]

\* Whether the line ends with the value.
EndsWith(line, value) ==
    /\ Len(line) >= Len(value)
    /\ SubSeq(line, Len(line) - Len(value) + 1, Len(line)) = value

RECURSIVE LinesBefore(_, _)
LinesBefore(parts, i) ==
    IF i <= 1 THEN 1 ELSE Len(parts[i - 1].values) + LinesBefore(parts, i - 1)

\* The line that starts the i-th part, which has a value.
FirstLine(i) == ret.text[LinesBefore(ret.parts, i) + 1]

\* The line is the value behind its label and a space, after blanks only.
Labelled(line, label, value) ==
    \E k \in 0..Len(line) : line = Blanks(k) \o label \o <<"_">> \o value

\* The line is the value after blanks only.
Unlabelled(line, value) == \E k \in 0..Len(line) : line = Blanks(k) \o value

\* Which of the parts is the bare name, and which the text.
IsNamePart(i) ==
    i = 1 /\ ((given.fc.parts = {} /\ given.fc.tags = {}) \/ NamePart \in given.fc.parts)

IsTextPart(i) == i = Len(ret.parts) /\ TextPart \in given.fc.parts

\* C16 as stated: with intros shown every part that has a value starts
\* with its label, but the bare name and the text, which start with none.
C16_Original ==
    (ret.done /\ ~given.fc.hideIntro) =>
        \A i \in DOMAIN ret.parts :
            ret.parts[i].values # <<>> =>
                IF IsNamePart(i) \/ IsTextPart(i)
                THEN Unlabelled(FirstLine(i), ret.parts[i].values[1])
                ELSE /\ ret.parts[i].intro # <<>>
                     /\ Labelled(FirstLine(i), ret.parts[i].intro, ret.parts[i].values[1])

\* C16: with intros shown every part that has a value starts with its
\* label, the text part with the label Text:, but the bare name, which
\* starts with no label; the other lines of a part start with blanks.
C16_LabelledButName ==
    (ret.done /\ ~given.fc.hideIntro) =>
        \A i \in DOMAIN ret.parts :
            /\ ret.parts[i].values # <<>> =>
                  IF IsNamePart(i)
                  THEN Unlabelled(FirstLine(i), ret.parts[i].values[1])
                  ELSE /\ ret.parts[i].intro # <<>>
                       /\ IsTextPart(i) => ret.parts[i].intro = <<"Text:">>
                       /\ Labelled(FirstLine(i), ret.parts[i].intro, ret.parts[i].values[1])
            /\ \A j \in 2..Len(ret.parts[i].values) :
                  Unlabelled(ret.text[LinesBefore(ret.parts, i) + j], ret.parts[i].values[j])

\* A rendering with intros of the name and the text alone: the name's
\* line has no label and the text's first line has the label Text:.
C16_Witness ==
    /\ ret.done
    /\ ~given.fc.hideIntro
    /\ given.fc.parts = {NamePart, TextPart}
    /\ given.fc.tags = {}
    /\ Len(given.s.text) = 2
    /\ ret.text[2] = Blanks(nameIndent) \o given.s.name
    /\ ret.text[3] = Blanks(dfltIndent) \o <<"Text:", "_">> \o given.s.text[1]
    /\ ret.text[4] = Blanks(dfltIndent + 6) \o given.s.text[2]


(***************************************************************************)
(* List called twice on one ListCfg.                                       *)
(***************************************************************************)
\* The snippets written, in order.
SnippetsIn(written) == SelectSeq(written, LAMBDA w : w.kind = "snippet")

\* The second List has returned.
SecondDone == lpc = "done" /\ prior # <<>>

\* The errors a category holds.
Held(em, cat) == IF cat \in DOMAIN em THEN em[cat] ELSE <<>>

\* What has been recorded and written since the first List returned.
SecondErrs ==
    [cat \in DOMAIN errs |->
        SubSeq(errs[cat], Len(Held(prior.errs, cat)) + 1, Len(errs[cat]))]

SecondOut == SubSeq(out, Len(prior.out) + 1, Len(out))

\* C17: a second List on the same ListCfg, the files being as they were,
\* records the diagnostics the first recorded and writes what the first
\* wrote.
C17_SecondRunAlike ==
    SecondDone =>
        /\ \A cat \in DOMAIN errs : SecondErrs[cat] = Held(prior.errs, cat)
        /\ SecondOut = prior.out

\* What holds of the second run: it writes what the first wrote but for
\* the intros, and every file whose content it reads it reports as a
\* duplicate, the first run having left the content's hash behind.
C17_SecondRunDuplicates ==
    SecondDone =>
        /\ SnippetsIn(SecondOut) = SnippetsIn(prior.out)
        /\ (visits # <<>>) =>
              Len(Held(SecondErrs, Category("Duplicate snippet", <<>>))) > 0

\* A second List of one directory with one good snippet: the first run
\* records nothing, the second a duplicate.
C17_Witness ==
    /\ SecondDone
    /\ prior.errs = EmptyMap
    /\ Len(prior.out) = 2
    /\ DOMAIN errs = {Category("Duplicate snippet", <<>>)}

(***************************************************************************)
(* The intro of a directory.                                               *)
(***************************************************************************)
Intros == {i \in DOMAIN out : out[i].kind = "intro"}

\* The directory the intro names.
IntroRoot(i) == SubSeq(out[i].text, 3, Len(out[i].text))

\* Whether the file lies under the directory.
Under(fName, root) == HasPrefix(fName, root \o <<"/">>)

\* The directories List walks: the roots, and those among the absolute
\* constraints; and how many times it walks one.
WalkedRoots ==
    Range(lc.dirs)
    \cup {c \in lc.constraints :
            IsAbs(c) /\ Stat(fs, c).err = NoErr /\ Stat(fs, c).isDir}

WalksOf(root) ==
    Cardinality({i \in DOMAIN lc.dirs : lc.dirs[i] = root})
    + (IF root \in lc.constraints /\ root \in WalkedRoots THEN 1 ELSE 0)

\* Every intro written is followed at once by a snippet of the directory it
\* names, and a directory's intro is written at most once a walk.
IntrosInPlace ==
    /\ \A i \in Intros :
          /\ IntroRoot(i) \in WalkedRoots
          /\ i + 1 \in Snippets
          /\ Under(out[i + 1].s[1].path, IntroRoot(i))
    /\ \A root \in WalkedRoots :
          Cardinality({i \in Intros : IntroRoot(i) = root}) <= WalksOf(root)

\* C18: when List has returned, every intro 'in: <root>' written stands
\* immediately before a rendered snippet found under that root, so that none
\* is written for a directory, be it a root or one named by an absolute
\* constraint, under which no snippet was rendered, and no directory has
\* more intros than walks.
C18_IntroBeforeSnippetOfRoot == ListDone => IntrosInPlace

\* What holds: the same, when no absolute constraint names a file.
C18_IntroWithoutSpecificFile ==
    (ListDone /\ \A c \in lc.constraints :
                    IsAbs(c) => (Stat(fs, c).err # NoErr \/ Stat(fs, c).isDir))
        => IntrosInPlace

\* The intro of a directory named by an absolute constraint, under which
\* nothing was rendered, written before the snippet of a file named by
\* another absolute constraint.
C18_Witness ==
    /\ ListDone
    /\ ~lc.hideIntro
    /\ Len(out) = 2
    /\ out[1] = IntroOut(<<"in:", "_">> \o RootB)
    /\ out[2].kind = "snippet"
    /\ out[2].s[1].path = Join(RootA, X)

(***************************************************************************)
(* Failures met during the walk of the roots.                              *)
(***************************************************************************)
\* The names of the files a walk of the root comes upon: those whose
\* directories can all be read.
FilesUnder(root) ==
    {n \in ListNames :
        /\ Node(fs, Join(root, n)).kind \in {"file", "symlink"}
        /\ ReadDir(fs, root).err = NoErr
        /\ Len(n) > 1 => ReadDir(fs, Join(root, <<n[1]>>)).err = NoErr}

\* What the walks of a root leave behind for one file under it: an
\* unreadable file a "Bad snippet", a file eclipsed an "Eclipsed snippet",
\* any other a visit, with a "Bad snippet" if it does not parse and a
\* rendering if it does; each once a walk.
FileAccounted(root, n) ==
    LET fName == Join(root, n)
        r == ReadFile(fs, fName)
        p == parseSnippet(r.content, fName, n)
    IN IF r.err # NoErr
       THEN Count(ErrsOf("Bad snippet"), WrapErr(n, r.err)) = Occurrences(root)
       ELSE IF root # Earliest(n)
       THEN Count(ErrsOf("Eclipsed snippet"), Eclipse(n, root, Earliest(n)))
                = Occurrences(root)
       ELSE /\ Count(visits, fName) = Occurrences(root)
            /\ p.err # NoErr => Count(ErrsOf("Bad snippet"), p.err) = Occurrences(root)
            /\ Cardinality(RenderingsFrom(fName))
                  = IF p.err = NoErr THEN Occurrences(root) ELSE 0

\* The sub-directories of the root that cannot be read.
BadSubDirs(root) ==
    {sd \in {Sub} : /\ Node(fs, Join(root, sd)).kind = "dir"
                    /\ ReadDir(fs, Join(root, sd)).err # NoErr}

\* C19: no failure ends the walk of the roots.  When List has returned,
\* with no constraints set: a root that does not exist has recorded
\* nothing; a root that cannot be read for another reason has recorded the
\* failure under 'Bad snippets directory', once a walk; under a root that
\* can be read every sub-directory that cannot has recorded the failure
\* under 'Bad sub-directory', and every file in a directory that can be
\* read, whatever failed before it, has been dealt with, an unreadable or
\* unparsable one as a 'Bad snippet'; and the names expected and missing
\* have been reported.
C19_WalkGoesOn ==
    (ListDone /\ lc.constraints = {}) =>
        /\ \A root \in Range(lc.dirs) :
            LET d == ReadDir(fs, root)
                cat == Category("Bad snippets directory", root)
            IN /\ (d.err # NoErr /\ IsNotExist(d.err)) => cat \notin DOMAIN errs
               /\ (d.err # NoErr /\ ~IsNotExist(d.err)) =>
                      /\ cat \in DOMAIN errs
                      /\ errs[cat] = [i \in 1..Occurrences(root) |-> d.err]
               /\ d.err = NoErr =>
                      /\ cat \notin DOMAIN errs
                      /\ \A sd \in BadSubDirs(root) :
                            /\ Category("Bad sub-directory", sd) \in DOMAIN errs
                            /\ Count(errs[Category("Bad sub-directory", sd)],
                                     ReadDir(fs, Join(root, sd)).err) = Occurrences(root)
                      /\ \A n \in FilesUnder(root) : FileAccounted(root, n)
        /\ \A e \in MissingNames :
              \E i \in DOMAIN ErrsOf("Missing expected snippet") :
                  ErrsOf("Missing expected snippet")[i].args[1] = e

\* A run over a root that cannot be read and then a root with an
\* unreadable file, an unreadable sub-directory and, after them, a snippet
\* that is rendered and expects a name that is missing.
C19_Witness ==
    /\ ListDone
    /\ lc.constraints = {}
    /\ lc.dirs = <<RootB, RootA>>
    /\ Category("Bad snippets directory", RootB) \in DOMAIN errs
    /\ Category("Bad sub-directory", Sub) \in DOMAIN errs
    /\ Len(ErrsOf("Bad snippet")) = 1
    /\ RenderingsFrom(Join(RootA, X)) # {}
    /\ Len(ErrsOf("Missing expected snippet")) > 0

(***************************************************************************)
(* The constraints, on a root with a directory in a directory.             *)
(***************************************************************************)
SubSub == Join(Sub, Sub)

SelectPaths ==
    {RootA, Join(RootA, Hw), Join(RootA, X), Join(RootA, Sub), Join(RootA, Join(Sub, Hw)),
     Join(RootA, SubSub), Join(RootA, Join(SubSub, Hw))}

SelectConstraints ==
    {{}, {Hw}, {Sub}, {Join(Sub, Hw)}, {Join(Sub, X)}, {SubSub}, {Join(SubSub, Hw)},
     {X, SubSub}, {Hw, Join(Sub, Hw)}, {RootA}, {Join(RootA, Hw)}}

SelectInit ==
    /\ PureIdle
    /\ ParserIdle
    /\ cache = EmptyMap
    /\ lastOp = NoCall
    /\ failed = {}
    /\ \E c \in SelectConstraints : lc = NewListCfg(<<RootA>>, c, FALSE)
    /\ \E files \in [{Hw, X, Join(Sub, Hw), Join(SubSub, Hw)} -> {NoNode, FileNode("G")}],
          dirs \in [{Sub, SubSub} -> {NoNode, DirNode}] :
        /\ dirs[Sub] = NoNode => dirs[SubSub] = NoNode /\ files[Join(Sub, Hw)] = NoNode
        /\ dirs[SubSub] = NoNode => files[Join(SubSub, Hw)] = NoNode
        /\ fs = [path \in SelectPaths |->
                    IF path = RootA THEN DirNode
                    ELSE LET n == SubSeq(path, 3, Len(path)) IN
                         IF n \in DOMAIN dirs THEN dirs[n] ELSE files[n]]
    /\ errs = EmptyMap
    /\ out = <<>>
    /\ todo = <<>>
    /\ lpc = "ready"
    /\ visits = <<>>
    /\ prior = <<>>

SelectSpec == SelectInit /\ [][ListNext]_vars

\* The directories above the name: its proper prefixes that end before a "/".
DirsAbove(sName) ==
    {SubSeq(sName, 1, k) : k \in {j \in 1..(Len(sName) - 1) : sName[j + 1] = "/"}}

\* Whether the constraints select the file, and the directory, of the name.
FileSelected(sName) ==
    \/ lc.constraints = {}
    \/ sName \in lc.constraints
    \/ DirsAbove(sName) \cap lc.constraints # {}

DirSelected(sName) ==
    \/ lc.constraints = {}
    \/ sName \in lc.constraints
    \/ \E k \in lc.constraints : sName \in DirsAbove(k)
    \/ DirsAbove(sName) \cap lc.constraints # {}

\* The walk of the roots has begun: one of them has been taken from the
\* calls to come.
InRootWalk == Cardinality({i \in DOMAIN todo : todo[i].k = "listDir"}) < Len(lc.dirs)

\* The name and the file of the entry about to be displayed.
NextName ==
    IF Head(todo).sub # <<>> THEN Join(Head(todo).sub, Head(todo).name) ELSE Head(todo).name

NextFile == Join(Head(todo).dir, NextName)

\* The directory's name is a constraint or is above one.
DirNamed(sName) ==
    \/ lc.constraints = {}
    \/ sName \in lc.constraints
    \/ \E k \in lc.constraints : sName \in DirsAbove(k)

\* C20 as stated: in the walk of a root a file is displayed if and only if
\* there are no constraints, or its name is a constraint, or it lies beneath
\* a directory whose name is a constraint; and a directory is entered if
\* and only if there are no constraints, or its name is a constraint, or it
\* is above some constraint.
C20_Original ==
    [][(lpc = "running" /\ Head(todo).k = "display" /\ InRootWalk) =>
        /\ Node(fs, NextFile).kind \in {"file", "symlink"} =>
              ((visits' # visits \/ errs' # errs) <=> FileSelected(NextName))
        /\ (Node(fs, NextFile).kind = "dir" /\ Entries(fs, NextFile) # <<>>) =>
              ((Len(todo') >= Len(todo)) <=> DirNamed(NextName))]_vars

\* C20: in the walk of a root a file is displayed (read, and then recorded
\* as visited or reported) if and only if there are no constraints, or its
\* name under the root is a constraint, or it lies beneath a directory whose
\* name is a constraint; and a directory is entered if and only if there
\* are no constraints, or its name is a constraint, or it is above some
\* constraint, or it lies beneath a directory whose name is a constraint,
\* where nothing is checked any more.
C20_Selection ==
    [][(lpc = "running" /\ Head(todo).k = "display" /\ InRootWalk) =>
        /\ Node(fs, NextFile).kind \in {"file", "symlink"} =>
              ((visits' # visits \/ errs' # errs) <=> FileSelected(NextName))
        /\ (Node(fs, NextFile).kind = "dir" /\ Entries(fs, NextFile) # <<>>) =>
              ((Len(todo') >= Len(todo)) <=> DirSelected(NextName))]_vars

\* A run constrained to the sub-directory, with a file at the root that is
\* passed over: the file in the sub-directory and the file in the directory
\* within it, neither a constraint, are both displayed.
C20_Witness ==
    /\ ListDone
    /\ lc.constraints = {Sub}
    /\ Node(fs, Join(RootA, Hw)).kind = "file"
    /\ visits = <<Join(RootA, Join(Sub, Hw)), Join(RootA, Join(SubSub, Hw))>>
    /\ Cardinality(Snippets) = 2

(***************************************************************************)
(* The absolute constraints.                                               *)
(***************************************************************************)
\* The absolute constraints that name a file, and those that name a directory.
SpecificFiles ==
    {c \in lc.constraints : IsAbs(c) /\ Stat(fs, c).err = NoErr /\ ~Stat(fs, c).isDir}

SpecificDirs ==
    {c \in lc.constraints : IsAbs(c) /\ Stat(fs, c).err = NoErr /\ Stat(fs, c).isDir}

\* Once a root is being walked no absolute constraint is still to come.
ConstraintsFirst ==
    (lpc = "running" /\ InRootWalk) => \A i \in DOMAIN todo : todo[i].k # "constraint"

\* No file named by an absolute constraint is part of an "Eclipsed snippet".
NeverEclipsed ==
    \A f \in SpecificFiles : \A i \in DOMAIN ErrsOf("Eclipsed snippet") :
        f \notin Range(ErrsOf("Eclipsed snippet")[i].args)

\* When List has returned every file in a readable directory named by an
\* absolute constraint has been displayed, whatever the other constraints.
DirsWalkedUnchecked ==
    ListDone =>
        \A d \in SpecificDirs : \A n \in {Hw, X} :
            (ReadDir(fs, d).err = NoErr /\ ReadFile(fs, Join(d, n)).err = NoErr)
                => Count(visits, Join(d, n)) >= 1

\* C21 as stated: the absolute constraints are handled before any root is
\* walked; one that names a file is no part of any "Eclipsed snippet" or
\* "Duplicate snippet", as the file reported or as the file it is reported
\* against; one that names a directory is walked with nothing checked.
C21_Original ==
    /\ ConstraintsFirst
    /\ NeverEclipsed
    /\ \A f \in SpecificFiles : \A i \in DOMAIN ErrsOf("Duplicate snippet") :
          f \notin Range(ErrsOf("Duplicate snippet")[i].args)
    /\ DirsWalkedUnchecked

\* C21: the absolute constraints are handled before any root is walked;
\* one that names a file is no part of any "Eclipsed snippet", and when
\* List has returned it has, if readable, been given to the duplicate
\* check once, as every file displayed is, and been rendered once if it
\* parses; one that names a directory is walked with nothing checked.
C21_SpecificFirst ==
    /\ ConstraintsFirst
    /\ NeverEclipsed
    /\ ListDone =>
          \A f \in SpecificFiles :
              ReadFile(fs, f).err = NoErr =>
                  /\ Count(visits, f) = 1
                  /\ Cardinality(RenderingsOf(f)) = IF Parses(f) THEN 1 ELSE 0
    /\ DirsWalkedUnchecked

\* A file named by an absolute constraint, rendered, and a file of the
\* directory named by another, the one reported as a duplicate of the other.
C21_Witness ==
    /\ ListDone
    /\ SpecificFiles = {Join(RootA, X)}
    /\ SpecificDirs = {RootB}
    /\ RenderingsOf(Join(RootA, X)) # {}
    /\ \E i \in DOMAIN ErrsOf("Duplicate snippet") :
          Join(RootA, X) \in Range(ErrsOf("Duplicate snippet")[i].args)

(***************************************************************************)
(* Duplicates.                                                             *)
(***************************************************************************)
\* C22: in every state of a run of List no "Duplicate snippet" reports a
\* file as a duplicate of itself: the file reported and the file it is
\* reported against are different paths.
C22_NoSelfDuplicate ==
    \A i \in DOMAIN ErrsOf("Duplicate snippet") :
        ErrsOf("Duplicate snippet")[i].args[1] # ErrsOf("Duplicate snippet")[i].args[2]

\* What holds: every "Duplicate snippet" names a file visited and, against
\* it, the first file visited with that content, which is the file itself
\* when the file has been visited before.
C22_DuplicateOfFirstVisited ==
    \A i \in DOMAIN ErrsOf("Duplicate snippet") :
        \E j \in Repeats :
            ErrsOf("Duplicate snippet")[i] = Duplicate(visits[j], visits[FirstVisit(j)])

\* A root listed twice, its one file visited twice and reported as a
\* duplicate of itself.
C22_Witness ==
    /\ ListDone
    /\ lc.dirs = <<RootA, RootA>>
    /\ visits = <<Join(RootA, Hw), Join(RootA, Hw)>>
    /\ ErrsOf("Duplicate snippet") = <<Duplicate(Join(RootA, Hw), Join(RootA, Hw))>>

(***************************************************************************)
(* tidySlice called on its own, and the parser run on lines whose          *)
(* payloads come out of order, repeat and are blank.                       *)
(***************************************************************************)
MaxSlice == 4

TidyStrings == {<<>>, <<"_">>, <<"a">>, <<"b">>, <<"a", "b">>}

TidyLines ==
    { <<"b">>,
      <<"a">>,
      Dir("imports", <<"p">>),
      Dir("imports", <<"b">>),
      Dir("expects", <<"x">>),
      Dir("expects", <<"hw">>),
      Dir("follows", <<"hw">>),
      Dir("follows", <<"zz">>),
      Dir("follows", <<"_">>),
      Dir("note", <<"b">>),
      Dir("note", <<"a">>),
      Dir("tag", <<"a", ":", "b">>),
      Dir("tag", <<"a", ":", "a">>) }

TidyInit ==
    \/ /\ PureIdle
       /\ content \in SeqsUpTo(TidyLines, MaxLines)
       /\ lineNo = 0
       /\ s = NewS(ParsePath, ParseName)
       /\ presult = NoResult
       /\ ppc = "scan"
       /\ CacheIdle
       /\ ListIdle
    \/ /\ given \in SeqsUpTo(TidyStrings, MaxSlice)
       /\ ret = NotCalled
       /\ ParserIdle
       /\ CacheIdle
       /\ ListIdle

\* tidySlice called on the slice given, and again on what it returned.
CallTidySlice ==
    /\ ppc = "idle"
    /\ ~ret.done
    /\ ret' = [done |-> TRUE,
               once |-> tidySlice(given),
               twice |-> tidySlice(tidySlice(given))]
    /\ UNCHANGED <<given, listVars, content, lineNo, s, presult, ppc, fs, cache,
                   lastOp, failed>>

TidyNext == ParseLine \/ ParseFinish \/ CallTidySlice

TidySpec == TidyInit /\ [][TidyNext]_vars

Parsed == ppc = "done" /\ presult.err = NoErr

\* C23: every record the parser returns has its follows among its expects:
\* follows holds exactly the non-blank names of the follow directives,
\* expects holds those and the non-blank names of the expect directives, so
\* that a name of an expect directive alone is in expects and not in follows.
C23_FollowsAmongExpects ==
    Parsed =>
        LET rec == presult.s[1]
            F == Range(PayloadsOf(content, {"follows"}))
            E == Range(PayloadsOf(content, {"expects"}))
        IN /\ Range(rec.follows) \subseteq Range(rec.expects)
           /\ Range(rec.follows) = F
           /\ Range(rec.expects) = E \cup F
           /\ \A n \in E \ F : n \in Range(rec.expects) /\ n \notin Range(rec.follows)

\* A record with a name followed and a name expected only.
C23_Witness ==
    /\ Parsed
    /\ presult.s[1].follows = <<<<"zz">>>>
    /\ presult.s[1].expects = <<<<"x">>, <<"zz">>>>
    /\ \E i \in DOMAIN content : content[i] = Dir("expects", <<"x">>)

StrictlyAscending(slc) ==
    \A i \in 1..(Len(slc) - 1) : StrLess(slc[i], slc[i + 1])

NoRepeat(slc) == \A i, j \in DOMAIN slc : slc[i] = slc[j] => i = j

\* The values the tag lines give the tag, in order.
RECURSIVE TagValuesOf(_, _)
TagValuesOf(lines, tag) ==
    IF lines = <<>> THEN <<>>
    ELSE LET l == Head(lines)
             rest == TagValuesOf(Tail(lines), tag)
         IN IF LineKind(l) = "tag"
            THEN LET cut == CutColon(TrimSpace(LinePayload(l))) IN
                 IF TrimSpace(cut.before) = tag
                 THEN <<TrimSpace(cut.after)>> \o rest
                 ELSE rest
            ELSE rest

\* C26: tidySlice is idempotent; what it returns is strictly ascending, has
\* no empty string and no repeat, and holds exactly the non-empty strings of
\* its input; the parser returns imports, expects and follows so tidied and
\* text, docs and the values of each tag in the order of the lines.
C26_Tidied ==
    /\ ret.done =>
          /\ ret.twice = ret.once
          /\ StrictlyAscending(ret.once)
          /\ <<>> \notin Range(ret.once)
          /\ NoRepeat(ret.once)
          /\ Range(ret.once) = Range(given) \ {<<>>}
    /\ Parsed =>
          LET rec == presult.s[1] IN
          /\ \A slc \in {rec.imports, rec.expects, rec.follows} :
                StrictlyAscending(slc) /\ <<>> \notin Range(slc) /\ NoRepeat(slc)
          /\ Range(rec.imports) = Range(PayloadsOf(content, {"imports"}))
          /\ Range(rec.expects) = Range(PayloadsOf(content, {"expects", "follows"}))
          /\ Range(rec.follows) = Range(PayloadsOf(content, {"follows"}))
          /\ rec.text = SelectSeq(content, IsTextLine)
          /\ Len(rec.docs) = Len(NotePayloads(content))
          /\ \A i \in DOMAIN rec.docs : rec.docs[i] = TrimLeft(NotePayloads(content)[i])
          /\ \A tg \in DOMAIN rec.tags : rec.tags[tg] = TagValuesOf(content, tg)

\* tidySlice called on a slice out of order, with a repeat and an empty
\* string.
C26_Witness ==
    /\ ret.done
    /\ given = <<<<"b">>, <<>>, <<"a">>, <<"b">>>>
    /\ ret.once = <<<<"a">>, <<"b">>>>

(***************************************************************************)
(* The empty sets of the format configuration.                             *)
(***************************************************************************)
\* The intro of the part of each name.
PartIntro(part) ==
    CASE part = NamePart -> <<>>
      [] part = PathPart -> <<"Pathname:">>
      [] part = DocsPart -> <<"Note:">>
      [] part = ImportPart -> <<"Imports:">>
      [] part = FollowPart -> <<"Follows:">>
      [] part = ExpectPart -> <<"Expects:">>
      [] part = TagPart -> <<"Tags:">>
      [] part = TextPart -> <<"Text:">>

PartShown(part) == PartIntro(part) \in Range(IntrosOf(ret.parts))

TagShown(tg) == (tg \o <<":">>) \in Range(IntrosOf(ret.parts))

DefaultParts == {NamePart, DocsPart, ImportPart, FollowPart, ExpectPart}

\* C24: with an empty set of tags every tag of the record is shown, and
\* with an empty set of parts every part is shown, whatever the other set
\* holds.
C24_EmptyMeansAll ==
    ret.done =>
        /\ given.fc.tags = {} => \A tg \in DOMAIN given.s.tags : TagShown(tg)
        /\ given.fc.parts = {} => \A part \in validParts : PartShown(part)

\* What initPartsToShow does: the empty sets count only when both are
\* empty, and then the name, the notes, the imports, the follows, the
\* expects and every tag are shown; otherwise a part is shown when it is in
\* the set of parts and a tag when it is in the set of tags.
C24_EmptyOnlyTogether ==
    ret.done =>
        LET bothEmpty == given.fc.parts = {} /\ given.fc.tags = {} IN
        /\ \A tg \in DOMAIN given.s.tags :
              TagShown(tg) <=> (bothEmpty \/ tg \in given.fc.tags)
        /\ \A part \in validParts :
              PartShown(part) <=>
                  (part \in given.fc.parts \/ (bothEmpty /\ part \in DefaultParts))

\* The set of tags is empty, the set of parts is not, the record has tags
\* and none of them is shown.
C24_Witness ==
    /\ ret.done
    /\ given.fc.tags = {}
    /\ given.fc.parts = {NamePart}
    /\ DOMAIN given.s.tags = {Wa, Wb}
    /\ IntrosOf(ret.parts) = <<<<>>>>

(***************************************************************************)
(* The categories of the diagnostics.                                      *)
(***************************************************************************)
DocumentedKinds ==
    {"Bad snippets directory", "Bad sub-directory", "Eclipsed snippet",
     "Duplicate snippet", "Bad snippet", "Unexpected file type",
     "Missing expected snippet"}

DirectoryKinds == {"Bad snippets directory", "Bad sub-directory"}

\* The absolute constraints that cannot be examined.
BadSpecifics == {c \in lc.constraints : IsAbs(c) /\ Stat(fs, c).err # NoErr}

\* C25: every diagnostic of a run of List is filed under one of the seven
\* categories documented.
C25_SevenCategories ==
    \A cat \in DOMAIN errs : cat.kind \in DocumentedKinds

\* What holds: every diagnostic is filed under one of the seven categories
\* or under "Bad specific snippet", which holds one diagnostic for each
\* absolute constraint that cannot be examined; the two categories of
\* directories carry the name of the directory and the others nothing.
C25_EightCategories ==
    /\ \A cat \in DOMAIN errs :
          /\ cat.kind \in DocumentedKinds \cup {"Bad specific snippet"}
          /\ cat.kind \notin DirectoryKinds => cat.arg = <<>>
          /\ errs[cat] # <<>>
    /\ ListDone =>
          /\ Len(ErrsOf("Bad specific snippet")) = Cardinality(BadSpecifics)
          /\ \A c \in BadSpecifics :
                \E i \in DOMAIN ErrsOf("Bad specific snippet") :
                    ErrsOf("Bad specific snippet")[i] = WrapErr(c, Stat(fs, c).err)

\* An absolute constraint names a file that is not there, and the run has
\* filed a diagnostic under "Bad specific snippet".
C25_Witness ==
    /\ ListDone
    /\ BadSpecifics # {}
    /\ Len(ErrsOf("Bad specific snippet")) = 1

(***************************************************************************)
(* cmpSlice called by itself on two slices.                                *)
(***************************************************************************)
CmpSlices == SeqsUpTo({Wa, Wb}, MaxSlice)

CmpInit ==
    /\ given \in [a : CmpSlices, b : CmpSlices]
    /\ ret = NotCalled
    /\ ParserIdle
    /\ CacheIdle
    /\ ListIdle

CallCmpSlice ==
    /\ ~ret.done
    /\ ret' = [done |-> TRUE, err |-> cmpSlice(<<"Text">>, given.a, given.b)]
    /\ UNCHANGED <<given, listVars, content, lineNo, s, presult, ppc, fs, cache,
                   lastOp, failed>>

CmpNext == CallCmpSlice

CmpSpec == CmpInit /\ [][CmpNext]_vars

\* The indexes of the common prefix at which the entries differ.
Differing(a, b) == {i \in DOMAIN a \cap DOMAIN b : a[i] # b[i]}

\* The lines of the error that are of the sort.
LinesOf(err, sort) ==
    IF err = NoErr THEN <<>> ELSE SelectSeq(err.args[2], LAMBDA d : d[1] = sort)

\* C27: cmpSlice returns nil if and only if the slices have the same length
\* and equal entries at every index; otherwise, with d the number of
\* differing indexes of the common prefix, the error tells of the lengths
\* when they differ, shows the first differing index only when d >= 1, adds
\* 'an additional difference was found' exactly when d = 2 and
\* '<d-1> additional differences were found' exactly when d > 2.
C27_Differences ==
    ret.done =>
        LET a == given.a
            b == given.b
            d == Cardinality(Differing(a, b))
            first == CHOOSE i \in Differing(a, b) : \A j \in Differing(a, b) : i <= j
        IN /\ ret.err = NoErr <=>
                  (Len(a) = Len(b) /\ \A i \in DOMAIN a : a[i] = b[i])
           /\ ret.err # NoErr => ret.err.args[1] = <<"Text">>
           /\ LinesOf(ret.err, "the lengths differ") =
                  (IF Len(a) # Len(b)
                   THEN <<<<"the lengths differ", Len(a), Len(b)>>>> ELSE <<>>)
           /\ LinesOf(ret.err, "entry differs") =
                  (IF d >= 1
                   THEN <<<<"entry differs", first - 1, a[first], b[first]>>>> ELSE <<>>)
           /\ LinesOf(ret.err, "an additional difference was found") =
                  (IF d = 2 THEN <<<<"an additional difference was found">>>> ELSE <<>>)
           /\ LinesOf(ret.err, "additional differences were found") =
                  (IF d > 2
                   THEN <<<<"additional differences were found", d - 1>>>> ELSE <<>>)

\* Slices of different lengths that differ at the three indexes of the
\* common prefix: the first is shown and two more are told of.
C27_Witness ==
    /\ ret.done
    /\ given.a = <<Wa, Wb, Wa, Wb>>
    /\ given.b = <<Wb, Wa, Wb>>
    /\ ret.err.args[2] = << <<"the lengths differ", 4, 3>>,
                            <<"entry differs", 0, Wa, Wb>>,
                            <<"additional differences were found", 2>> >>

(***************************************************************************)
(* What the Cache holds.                                                   *)
(***************************************************************************)
\* C28: after any calls of Add, Get and Check every entry of the cache maps
\* a name to a record of that name with text or imports, and an entry once
\* stored is neither removed nor replaced by another record.
C28_CacheInvariant ==
    /\ [](\A n \in DOMAIN cache :
             /\ cache[n].name = n
             /\ (cache[n].text # <<>> \/ cache[n].imports # <<>>))
    /\ [][\A n \in DOMAIN cache : n \in DOMAIN cache' /\ cache'[n] = cache[n]]_vars

\* Two entries in the cache, one of them of a file that has changed since
\* it was stored, and a Check just called.
C28_Witness ==
    /\ Cardinality(DOMAIN cache) = 2
    /\ lastOp.op = "Check"
    /\ \E n \in DOMAIN cache : FileDiffers(cache[n])

(***************************************************************************)
(* Files that cannot be parsed and files that cannot be read.              *)
(***************************************************************************)
\* The names the "Missing expected snippet" diagnostics report.
ReportedMissing ==
    {ErrsOf("Missing expected snippet")[i].args[1] :
        i \in DOMAIN ErrsOf("Missing expected snippet")}

\* C29: in a run of List a file that is read and does not parse still
\* takes its name: the name is located at its root, it is rendered from
\* nowhere, every file of the name that can be read under another root is
\* reported as eclipsed by that root and not rendered, and the name is not
\* reported as missing; a file that cannot be read takes nothing: the name
\* is located at the earliest root where it can be read, if any, and a file
\* there is not reported as eclipsed.
C29_UnparsableTakesName ==
    ListDone =>
        \A n \in ListNames :
            /\ (n \in DOMAIN lc.loc /\ ~Parses(Join(lc.loc[n], n))) =>
                  /\ RenderingsOf(n) = {}
                  /\ n \notin ReportedMissing
            /\ (lc.constraints = {} /\ ReadableAt(n) # {}) =>
                  /\ n \in DOMAIN lc.loc
                  /\ lc.loc[n] = Earliest(n)
                  /\ \A r \in ReadableRoots(n) \ {Earliest(n)} :
                        /\ Count(ErrsOf("Eclipsed snippet"), Eclipse(n, r, Earliest(n))) >= 1
                        /\ RenderingsFrom(Join(r, n)) = {}
                  /\ \A i \in DOMAIN ErrsOf("Eclipsed snippet") :
                        ErrsOf("Eclipsed snippet")[i].args[1] = n =>
                            ErrsOf("Eclipsed snippet")[i].args[2] # Earliest(n)
            /\ (lc.constraints = {} /\ ReadableAt(n) = {}) => n \notin DOMAIN lc.loc

\* The file x of the first root does not parse and the one of the second
\* root is good: x is eclipsed and rendered nowhere, and although the
\* snippet hw follows x, x is not among the names reported as missing.
C29_Witness ==
    /\ ListDone
    /\ lc.dirs = <<RootA, RootB>>
    /\ lc.constraints = {}
    /\ fs[Join(RootA, Hw)] = FileNode("E")
    /\ fs[Join(RootA, X)] = FileNode("N")
    /\ fs[Join(RootB, X)] = FileNode("E")
    /\ RenderingsOf(X) = {}
    /\ X \in ExpectedNames
    /\ ReportedMissing = {<<"q">>, <<"zz">>}
    /\ ErrsOf("Eclipsed snippet") = <<Eclipse(X, RootB, RootA)>>

(***************************************************************************)
(* List and then Cache.Add on the same directories: distinct roots holding *)
(* directories and regular files only, and no constraints.  A directory    *)
(* that cannot be listed may still be searched: the files in it can be     *)
(* read by their paths when their own permissions allow it.                *)
(***************************************************************************)
AgreePaths ==
    {RootA, Join(RootA, Hw), Join(RootA, Sub), Join(Join(RootA, Sub), Hw),
     RootB, Join(RootB, Hw)}

AgreeNames == {Hw, Sub, Join(Sub, Hw)}

AgreeInit ==
    /\ PureIdle
    /\ ParserIdle
    /\ cache = EmptyMap
    /\ lastOp = NoCall
    /\ failed = {}
    /\ \E dirs \in {<<RootA>>, <<RootA, RootB>>, <<RootB, RootA>>} :
          lc = NewListCfg(dirs, {}, FALSE)
    /\ \E a \in {DirNode, UnreadableDir},
          ahw \in {NoNode, FileNode("G"), FileNode("N"), UnreadableFile("G")},
          asub \in {NoNode, DirNode, UnreadableDir, FileNode("G")},
          asubhw \in {NoNode, FileNode("G")},
          b \in {NoNode, DirNode, UnreadableDir},
          bhw \in {NoNode, FileNode("G"), FileNode("N")} :
        /\ asub.kind # "dir" => asubhw = NoNode
        /\ b = NoNode => bhw = NoNode
        /\ fs = [path \in AgreePaths |->
                    CASE path = RootA -> a
                      [] path = Join(RootA, Hw) -> ahw
                      [] path = Join(RootA, Sub) -> asub
                      [] path = Join(Join(RootA, Sub), Hw) -> asubhw
                      [] path = RootB -> b
                      [] path = Join(RootB, Hw) -> bhw]
    /\ errs = EmptyMap
    /\ out = <<>>
    /\ todo = <<>>
    /\ lpc = "ready"
    /\ visits = <<>>
    /\ prior = <<>>

\* Once List has returned, Add is called on an empty cache with the
\* directories of the listing.
AddAfterList ==
    /\ lpc = "done"
    /\ cache = EmptyMap
    /\ lastOp = NoCall
    /\ \E n \in AgreeNames : CacheAdd(lc.dirs, n)

AgreeNext == ListBegin \/ listDir \/ display \/ ListEnd \/ AddAfterList

AgreeSpec == AgreeInit /\ [][AgreeNext]_vars

\* Every directory there is can be listed.
AllListable == \A path \in DOMAIN fs : fs[path] # UnreadableDir

\* List renders the name if and only if Add succeeded, and from the file Add
\* took.
Agree ==
    /\ RenderingsOf(lastOp.name) # {} <=> lastOp.err = NoErr
    /\ lastOp.err = NoErr =>
          \A i \in RenderingsOf(lastOp.name) : out[i].s[1].path = lastOp.s[1].path

=============================================================================
